---- MODULE Spec2Model ----
(***************************************************************************)
(* A model of lib/json_cursor.py: the JsonCursor class (attribute and      *)
(* index navigation, value(), get_path(), the on_* predicates, search and  *)
(* visit) together with a caller that holds a tree, a chain of cursors and *)
(* the list object that get_path() handed out; and of the components of    *)
(* the application built around it: RestRequest (lib/rest_request.py) and  *)
(* the request builders and testmo_collect (lib/testmo_access.py), the     *)
(* HandlerChain and the run selection of table_to_sheet                    *)
(* (testmo_overview.py). Each component has its own variables and its own  *)
(* specification; the variables of the other components stay at rest.      *)
(*                                                                         *)
(* Python values are modelled as records                                   *)
(*     [type, keys, kids, val]                                             *)
(* type is the name of the Python type; keys/kids are the entries of a     *)
(* mapping in insertion order (keys[i] maps to kids[i]) or, with keys      *)
(* empty, the elements of a list/tuple; val is, for str/bytes/bytearray,   *)
(* the sequence of characters, and for another scalar a one-element        *)
(* sequence holding its literal.                                           *)
(* A path segment is [kind, name, idx]: a mapping key or a list index.     *)
(* Paths are Python lists, objects with identity: the heap `lists` maps a  *)
(* list id to the list's current content and a cursor holds an id.         *)
(***************************************************************************)
EXTENDS Integers, Sequences, FiniteSets, TLC

VARIABLES
    tree,      \* the caller's data, the node the root cursor was built on
    lists,     \* heap of list objects: id -> sequence of segments
    cursors,   \* the JsonCursor objects alive: [node, path] with path a list id
    steps,     \* per cursor, the number of navigation steps that led to it
    held,      \* [ref, of, orig]: the list get_path() returned, its cursor, its content then
    muts,      \* number of changes the caller made to the held list
    last,      \* outcome of the most recent operation
    calls      \* predicate/handler calls of the most recent search or visit

\* RestRequest objects and the request builders
VARIABLES
    request,     \* the request an operation is called on
    other,       \* the argument of merge: a request, or a dict as a request with params only
    built,       \* the request the most recent operation returned
    request_op   \* the most recent operation

\* testmo_collect: its arguments, its locals, and what went over the wire
VARIABLES
    rest_request,     \* the request testmo_collect was given
    convert_to,       \* its convert_to argument
    current_request,  \* the request of the current iteration
    reply,            \* the reply to the request sent last
    collected,        \* the local `result`
    sent,             \* the requests sent, in order
    replies,          \* the replies received, in order
    pc                \* where testmo_collect stands

\* HandlerChain
VARIABLES
    handlers,   \* the handlers the chain was built with, in order
    event,      \* the event method called last
    invoked,    \* positions of the handlers whose method was invoked, in order
    outcome     \* how the call ended and what it returned

\* the run selection of table_to_sheet
VARIABLES
    test_runs,            \* the runs as collected
    requested_runs,       \* the number_of_runs argument
    number_of_runs,       \* the local number_of_runs (reassigned at line 636)
    skipped_runs,
    offset,
    run_index,
    effective_run_index,
    sheet,                \* the run title cells written: [column, run], in order
    phase

cursorVars == <<tree, lists, cursors, steps, held, muts, last, calls>>
requestVars == <<request, other, built, request_op>>
collectVars == <<rest_request, convert_to, current_request, reply, collected, sent, replies, pc>>
chainVars == <<handlers, event, invoked, outcome>>
sheetVars == <<test_runs, requested_runs, number_of_runs, skipped_runs, offset, run_index,
               effective_run_index, sheet, phase>>

vars == <<cursorVars, requestVars, collectVars, chainVars, sheetVars>>

(* ------------------------------ bounds -------------------------------- *)
MaxCursors == 4
MaxLen == 2
MaxMuts == 1
MaxParams == 2
MaxRequests == 3
MaxHandlers == 4
MaxRuns == 3
MaxEndpoint == 2

(* --------------------------- Python values ---------------------------- *)
PyStr(chars) == [type |-> "str", keys |-> <<>>, kids |-> <<>>, val |-> chars]
PyBytes(chars) == [type |-> "bytes", keys |-> <<>>, kids |-> <<>>, val |-> chars]
PyByteArray(chars) == [type |-> "bytearray", keys |-> <<>>, kids |-> <<>>, val |-> chars]
PyInt(lit) == [type |-> "int", keys |-> <<>>, kids |-> <<>>, val |-> <<lit>>]
PyBool(lit) == [type |-> "bool", keys |-> <<>>, kids |-> <<>>, val |-> <<lit>>]
PyNone == [type |-> "NoneType", keys |-> <<>>, kids |-> <<>>, val |-> <<"None">>]
PyDict(ks, vs) == [type |-> "dict", keys |-> ks, kids |-> vs, val |-> <<>>]
PyMappingProxy(ks, vs) == [type |-> "mappingproxy", keys |-> ks, kids |-> vs, val |-> <<>>]
PyList(vs) == [type |-> "list", keys |-> <<>>, kids |-> vs, val |-> <<>>]
PyTuple(vs) == [type |-> "tuple", keys |-> <<>>, kids |-> vs, val |-> <<>>]

Key(name) == [kind |-> "key", name |-> name, idx |-> 0]
Index(i) == [kind |-> "index", name |-> "", idx |-> i]
NoSeg == [kind |-> "none", name |-> "", idx |-> 0]

(* isinstance(x, T) for the types the source tests against *)
IsInstanceDict(n) == n.type = "dict"
IsInstanceList(n) == n.type = "list"
IsInstanceMapping(n) == n.type \in {"dict", "mappingproxy"}
IsInstanceSequence(n) == n.type \in {"list", "tuple", "str", "bytes", "bytearray"}
IsInstanceStrBytes(n) == n.type \in {"str", "bytes", "bytearray"}

(* name in node / node[name] / len(node) / node[i] of the built-in containers *)
KeyPos(n, name) == {i \in 1..Len(n.keys) : n.keys[i] = name}
Contains(n, name) == KeyPos(n, name) # {}
Lookup(n, name) == n.kids[CHOOSE i \in KeyPos(n, name) : TRUE]
PyLen(n) == IF n.type \in {"str", "bytes", "bytearray"} THEN Len(n.val) ELSE Len(n.kids)
Item(n, i) == n.kids[i + 1]

(* what iterating a sequence yields: the elements of a list/tuple, the      *)
(* one-character strings of a str, the integers of a bytes/bytearray        *)
Elements(n) ==
    IF n.type = "str" THEN [i \in 1..Len(n.val) |-> PyStr(<<n.val[i]>>)]
    ELSE IF n.type \in {"bytes", "bytearray"} THEN [i \in 1..Len(n.val) |-> PyInt(n.val[i])]
    ELSE n.kids

(* bool(x) of a Python value *)
Truthy(n) ==
    CASE n.type \in {"dict", "mappingproxy", "list", "tuple"} -> Len(n.kids) > 0
      [] n.type \in {"str", "bytes", "bytearray"} -> Len(n.val) > 0
      [] n.type = "int" -> n.val # <<"0">>
      [] n.type = "bool" -> n.val = <<"True">>
      [] OTHER -> FALSE

(* ----------------------------- JsonCursor ----------------------------- *)
(* A cursor seen by a method: its node and the content of its path list.  *)
Cur(node, path) == [node |-> node, path |-> path]

(* the names normal attribute lookup finds on a JsonCursor object, so that *)
(* __getattr__ is never called for them                                    *)
Members == {"node", "path", "value", "search", "visit", "get_path",
            "on_dict", "on_list", "on_data"}

Outcome(status, msg, node, path) ==
    [status |-> status, msg |-> msg, node |-> node, path |-> path]

__getattr__(self, name) ==
    IF IsInstanceDict(self.node)
    THEN IF Contains(self.node, name)
         THEN Outcome("ok", "", Lookup(self.node, name), Append(self.path, Key(name)))
         ELSE Outcome("AttributeError", "Key not found in current node", PyNone, <<>>)
    ELSE Outcome("AttributeError", "Current node is not a JSON object (dict)", PyNone, <<>>)

(* cursor.<name>: Python calls __getattr__ only when the normal lookup fails *)
GetAttr(self, name) ==
    IF name \in Members
    THEN Outcome("member", name, PyNone, <<>>)
    ELSE __getattr__(self, name)


(* an index taken modulo the length, so that no index is out of range on a *)
(* non-empty list                                                          *)
__getitem___wraps(self, index) ==
    IF IsInstanceList(self.node)
    THEN IF PyLen(self.node) > 0
         THEN Outcome("ok", "", Item(self.node, index % PyLen(self.node)),
                      Append(self.path, Index(index)))
         ELSE Outcome("IndexError", "List index out of range", PyNone, <<>>)
    ELSE Outcome("TypeError", "Current node is not a JSON array (list)", PyNone, <<>>)

__getitem__(self, index) ==
    IF IsInstanceList(self.node)
    THEN IF 0 <= index /\ index < PyLen(self.node)
         THEN Outcome("ok", "", Item(self.node, index), Append(self.path, Index(index)))
         ELSE Outcome("IndexError", "List index out of range", PyNone, <<>>)
    ELSE Outcome("TypeError", "Current node is not a JSON array (list)", PyNone, <<>>)

value(self) ==
    IF IsInstanceDict(self.node) \/ IsInstanceList(self.node)
    THEN Outcome("TypeError", "Current node is not a terminal JSON value", PyNone, <<>>)
    ELSE Outcome("ok", "", self.node, <<>>)

on_dict(self) == IsInstanceMapping(self.node)

(* on_list without the exclusion of str, bytes and bytearray *)
on_list_any_sequence(self) == IsInstanceSequence(self.node)

on_list(self) == IsInstanceSequence(self.node) /\ ~IsInstanceStrBytes(self.node)

(* on_data that forgets on_list *)
on_data_ignores_lists(self) == ~on_dict(self)

on_data(self) == ~(on_dict(self) \/ on_list(self))

(* get_path returns the cursor's own list object, i.e. its id *)
get_path(c) == c.path


(* a child built on its parent's list, extended in place (self.path.append) *)
__init___extends_parent_list(heap, node, path) ==
    IF heap = <<>>
    THEN [cursor |-> [node |-> node, path |-> 1], heap |-> <<path>>]
    ELSE [cursor |-> [node |-> node, path |-> Len(heap)],
          heap |-> [heap EXCEPT ![Len(heap)] = path]]

(* JsonCursor(node, path): self.path = path or [] keeps a non-empty list   *)
(* object and replaces None (and an empty list) by a new empty list.        *)
(* Every cursor of this model is built either without a path or on the new  *)
(* list that `self.path + [x]` made, so its list is a new heap object.      *)
__init__(heap, node, path) ==
    [cursor |-> [node |-> node, path |-> Len(heap) + 1],
     heap |-> Append(heap, path)]

(* the truth value a cursor would have if it took it from its node *)
CursorTruthy_by_node(cursor) == Truthy(cursor.node)


(* `if result is not None and result.node is not None` *)
CursorTruthy_not_none(cursor) == cursor.node # PyNone

(* a JsonCursor defines neither __bool__ nor __len__: `if result:` is true  *)
(* for every cursor, whatever its node                                       *)
CursorTruthy(cursor) == TRUE

(* reversed(cursor.node.items()): the entries in reverse order *)
Items_reversed(n) ==
    [i \in 1..Len(n.keys) |->
        [seg |-> Key(n.keys[Len(n.keys) + 1 - i]), node |-> n.kids[Len(n.keys) + 1 - i]]]

(* cursor.node.items() and enumerate(cursor.node), as (segment, child) pairs *)
Items(n) == [i \in 1..Len(n.keys) |-> [seg |-> Key(n.keys[i]), node |-> n.kids[i]]]
(* enumerate(cursor.node, 1): the indices counted from one *)
Enumerate_from_one(n) == [i \in 1..Len(Elements(n)) |-> [seg |-> Index(i), node |-> Elements(n)[i]]]


(* an iteration that starts over once when it reaches the end of the        *)
(* sequence: every element is yielded twice                                 *)
Enumerate_repeating(n) ==
    [i \in 1..(2 * Len(Elements(n))) |->
        [seg |-> Index((i - 1) % Len(Elements(n))),
         node |-> Elements(n)[((i - 1) % Len(Elements(n))) + 1]]]

Enumerate(n) == [i \in 1..Len(Elements(n)) |-> [seg |-> Index(i - 1), node |-> Elements(n)[i]]]

(* ------------------- predicates handed to search ---------------------- *)
(* A predicate answers "true", "false" or "raise".                         *)
(*   never / always      constant predicates                               *)
(*   terminal_eq         c.on_data() and c.value() == arg                  *)
(*   value_eq            c.value() == arg   (value() raises on dict/list)  *)
(*   has_name            isinstance(c.node, dict) and                      *)
(*                       c.node.get("name") == arg                         *)
(*   on_dict / on_list   c.on_dict() / c.on_list()                         *)
(*   falsy               not c.node                                        *)
(*   is_str              isinstance(c.node, str)                           *)
(*   is_none / is_false  c.node is None / c.node is False                  *)
Pred(name, arg) == [name |-> name, arg |-> arg]

Answer(b) == IF b THEN "true" ELSE "false"

EvalPred(p, c) ==
    CASE p.name = "never" -> "false"
      [] p.name = "always" -> "true"
      [] p.name = "terminal_eq" -> Answer(on_data(c) /\ value(c).node = PyStr(p.arg))
      [] p.name = "value_eq" ->
            IF value(c).status # "ok" THEN "raise"
            ELSE Answer(value(c).node = PyStr(p.arg))
      [] p.name = "has_name" ->
            Answer(IsInstanceDict(c.node) /\ Contains(c.node, "name")
                   /\ Lookup(c.node, "name") = PyStr(p.arg))
      [] p.name = "on_dict" -> Answer(on_dict(c))
      [] p.name = "on_list" -> Answer(on_list(c))
      [] p.name = "falsy" -> Answer(~Truthy(c.node))
      [] p.name = "is_str" -> Answer(c.node.type = "str")
      [] p.name = "is_none" -> Answer(c.node = PyNone)
      [] p.name = "is_false" -> Answer(c.node = PyBool("False"))
      [] OTHER -> "false"

Call(c, entering, ret) ==
    [node |-> c.node, path |-> c.path, entering |-> entering, ret |-> ret]

(* a search that catches what the predicate raises and takes it as "no match" *)
SearchResult_swallow(status, c, isSelf, cs) ==
    [status |-> IF status = "raise" THEN "none" ELSE status,
     node |-> c.node, path |-> c.path, self |-> isSelf, calls |-> cs]

(* --------------------------- search ----------------------------------- *)
(* Result: status "found" (node, path, and self = the cursor search was    *)
(* called on is the one returned), "none" or "raise", with the predicate   *)
(* calls made, in order.                                                    *)
SearchResult(status, c, isSelf, cs) ==
    [status |-> status, node |-> c.node, path |-> c.path, self |-> isSelf, calls |-> cs]

RECURSIVE _recursive_search(_, _, _)
RECURSIVE SearchChildren(_, _, _, _, _)

SearchChildren(p, cursor, children, i, cs) ==
    IF i > Len(children)
    THEN SearchResult("none", cursor, FALSE, cs)
    ELSE LET child == Cur(children[i].node, Append(cursor.path, children[i].seg))
             result == _recursive_search(p, child, FALSE)
         IN  IF result.status = "raise"
                \/ (result.status = "found" /\ CursorTruthy(result))
             THEN [result EXCEPT !.calls = cs \o result.calls]
             ELSE SearchChildren(p, cursor, children, i + 1, cs \o result.calls)

_recursive_search(p, cursor, isSelf) ==
    LET answer == EvalPred(p, cursor)
        cs == <<Call(cursor, TRUE, answer)>>
    IN  IF answer = "raise" THEN SearchResult("raise", cursor, FALSE, cs)
        ELSE IF answer = "true" THEN SearchResult("found", cursor, isSelf, cs)
        ELSE IF IsInstanceMapping(cursor.node)
             THEN SearchChildren(p, cursor, Items(cursor.node), 1, cs)
        ELSE IF IsInstanceSequence(cursor.node) /\ ~IsInstanceStrBytes(cursor.node)
             THEN SearchChildren(p, cursor, Enumerate(cursor.node), 1, cs)
        ELSE SearchResult("none", cursor, FALSE, cs)


(* a search that numbers the paths from the cursor it was called on        *)
search_relative(self, p) == _recursive_search(p, Cur(self.node, <<>>), TRUE)

search(self, p) == _recursive_search(p, self, TRUE)

(* -------------------- handlers handed to visit ------------------------ *)
(* A handler returns a Python value, named by its literal, or "raise".     *)
(*   collect         returns None (no return statement)                    *)
(*   zero / empty    returns 0 / ""                                         *)
(*   yes             returns True                                           *)
(*   prune_all       returns False                                          *)
(*   prune_dicts     returns False on a Mapping, None otherwise            *)
(*   prune_lists     returns False on a list-like node, None otherwise     *)
(*   prune_deep      returns False when len(path) >= 1, None otherwise     *)
(*   false_on_exit   returns True when entering, False on the exit call    *)
(*   raise_on_str    raises on a str node                                  *)
(*   raise_on_exit   raises on an exit call                                *)
EvalHandler(h, c, entering) ==
    CASE h = "collect" -> "None"
      [] h = "zero" -> "0"
      [] h = "empty" -> "''"
      [] h = "yes" -> "True"
      [] h = "prune_all" -> "False"
      [] h = "prune_dicts" -> IF on_dict(c) THEN "False" ELSE "None"
      [] h = "prune_lists" -> IF on_list(c) THEN "False" ELSE "None"
      [] h = "prune_deep" -> IF Len(c.path) >= 1 THEN "False" ELSE "None"
      [] h = "false_on_exit" -> IF entering THEN "True" ELSE "False"
      [] h = "raise_on_str" -> IF c.node.type = "str" THEN "raise" ELSE "None"
      [] h = "raise_on_exit" -> IF entering THEN "None" ELSE "raise"
      [] OTHER -> "None"

(* a check that never prunes *)
IsFalse_never(ret) == FALSE

(* `not continue_descent`: every falsy return value prunes *)
IsFalse_falsy(ret) == ret \in {"False", "0", "''", "None"}

(* `continue_descent is False`: only the bool False, no other falsy value *)
IsFalse(ret) == ret = "False"

(* a visit that catches what the handler raises and goes on *)
VisitResult_never_raised(raised, cs) == [raised |-> FALSE, calls |-> cs]

(* ----------------------------- visit ---------------------------------- *)
VisitResult(raised, cs) == [raised |-> raised, calls |-> cs]

RECURSIVE _recursive_visit(_, _)
RECURSIVE VisitChildren(_, _, _, _, _)

VisitChildren(h, cursor, children, i, cs) ==
    IF i > Len(children)
    THEN VisitResult(FALSE, cs)
    ELSE LET child == Cur(children[i].node, Append(cursor.path, children[i].seg))
             r == _recursive_visit(h, child)
         IN  IF r.raised
             THEN VisitResult(TRUE, cs \o r.calls)
             ELSE VisitChildren(h, cursor, children, i + 1, cs \o r.calls)

_recursive_visit(h, cursor) ==
    LET continue_descent == EvalHandler(h, cursor, TRUE)
        cs == <<Call(cursor, TRUE, continue_descent)>>
        descended == IsInstanceMapping(cursor.node)
                     \/ (IsInstanceSequence(cursor.node) /\ ~IsInstanceStrBytes(cursor.node))
        children == IF IsInstanceMapping(cursor.node)
                    THEN Items(cursor.node)
                    ELSE Enumerate(cursor.node)
    IN  IF continue_descent = "raise" THEN VisitResult(TRUE, cs)
        ELSE IF IsFalse(continue_descent) THEN VisitResult(FALSE, cs)
        ELSE IF descended
             THEN LET r == VisitChildren(h, cursor, children, 1, cs)
                      exit == EvalHandler(h, cursor, FALSE)
                  IN  IF r.raised THEN r
                      ELSE VisitResult(exit = "raise",
                                       Append(r.calls, Call(cursor, FALSE, exit)))
        ELSE VisitResult(FALSE, cs)

(* a visit that never makes the exit calls *)
visit_without_exit(self, h) ==
    LET r == _recursive_visit(h, self)
        IsEntering(c) == c.entering
    IN  [r EXCEPT !.calls = SelectSeq(r.calls, IsEntering)]


(* a visit that sets `descended` inside the loops, so that a container     *)
(* without entries gets no exit call                                       *)
visit_descended_in_loop(self, h) ==
    LET r == _recursive_visit(h, self)
        Kept(c) == c.entering \/ PyLen(c.node) > 0
    IN  [r EXCEPT !.calls = SelectSeq(r.calls, Kept)]

visit(self, h) == _recursive_visit(h, self)


(* ------------------------------ inputs -------------------------------- *)
Alice == PyStr(<<"A", "l", "i", "c", "e">>)

(* the tree of the end-to-end example: {"user": {"name": "Alice", "tags": ["x", "y"]}} *)
ExampleTree ==
    PyDict(<<"user">>,
           <<PyDict(<<"name", "tags">>,
                    <<Alice, PyList(<<PyStr(<<"x">>), PyStr(<<"y">>)>>)>>)>>)

(* the data of main(), e-mail addresses shortened *)
MainData ==
    PyList(<<PyDict(<<"user", "active">>,
                    <<PyDict(<<"name", "age", "emails">>,
                             <<Alice, PyInt("30"),
                               PyList(<<PyStr(<<"a", "@">>), PyStr(<<"s", "@">>)>>)>>),
                      PyBool("True")>>)>>)

(* keys that are also names of cursor members *)
ShadowTree ==
    PyDict(<<"node", "path", "value">>,
           <<PyDict(<<"a">>, <<PyInt("1")>>), PyStr(<<"p">>), PyList(<<PyStr(<<"v">>)>>)>>)

(* Sequences that are no list, Mappings that are no dict *)
TupleTree == PyTuple(<<PyStr(<<"x">>), PyList(<<PyStr(<<"y">>)>>)>>)
TupleInDict == PyDict(<<"t">>, <<PyTuple(<<PyStr(<<"x">>), PyStr(<<"y">>)>>)>>)
ProxyTree == PyMappingProxy(<<"a">>, <<PyStr(<<"a", "b">>)>>)
ProxyInList == PyList(<<PyMappingProxy(<<"a">>, <<PyStr(<<"y">>)>>)>>)

FalsyTree ==
    PyList(<<PyInt("0"), PyBool("False"), PyStr(<<>>), PyNone,
             PyDict(<<>>, <<>>), PyList(<<>>)>>)

NestedTree ==
    PyDict(<<"a", "b">>,
           <<PyList(<<PyList(<<PyInt("1")>>), PyStr(<<"a", "b">>)>>), PyDict(<<>>, <<>>)>>)

Scalars ==
    {PyStr(<<"a", "b">>), PyStr(<<>>), PyBytes(<<"97", "98">>), PyByteArray(<<"97">>),
     PyInt("0"), PyBool("False"), PyNone}

(* every list and every dict of at most MaxLen entries over GenLeaves *)
GenLeaves == {PyStr(<<"y">>), PyList(<<>>)}
GenKeys == <<"a", "path", "name", "b">>
GenSeqs == UNION {[1..n -> GenLeaves] : n \in 0..MaxLen}
GenTrees == {PyList(vs) : vs \in GenSeqs}
            \cup {PyDict(SubSeq(GenKeys, 1, Len(vs)), vs) : vs \in GenSeqs}

Trees ==
    {ExampleTree, MainData, ShadowTree, TupleTree, TupleInDict, ProxyTree, ProxyInList,
     FalsyTree, NestedTree}
    \cup Scalars \cup GenTrees

KeyNames == {"user", "name", "tags", "a", "t", "missing", "node", "path", "value"}
(* the indices around the lengths of the model, and the 5 of the end-to-end example *)
Indices == ((0 - 1)..(MaxLen + 1)) \cup {5}
Predicates ==
    {Pred(n, <<>>) : n \in {"never", "always", "on_dict", "on_list", "falsy", "is_str",
                            "is_none", "is_false"}}
    \cup {Pred("terminal_eq", <<"y">>), Pred("value_eq", <<"y">>), Pred("has_name", Alice.val)}
Handlers ==
    {"collect", "zero", "empty", "yes", "prune_all", "prune_dicts", "prune_lists",
     "prune_deep", "false_on_exit", "raise_on_str", "raise_on_exit"}
CallerSegments == {Key("x")}

(* ------------------- the other components at rest --------------------- *)
NoRequest ==
    [type |-> "RestRequest", auth |-> PyNone, base_url |-> PyStr(<<>>),
     endpoint |-> PyStr(<<>>), params |-> PyDict(<<>>, <<>>), body |-> PyDict(<<>>, <<>>),
     headers |-> PyDict(<<>>, <<>>), expect_json |-> PyBool("True"),
     own |-> PyDict(<<>>, <<>>)]

RequestsAtRest ==
    /\ request = NoRequest
    /\ other = NoRequest
    /\ built = NoRequest
    /\ request_op = ""

(* a reply of the server: the fields testmo_collect reads *)
Reply(page, last_page, next_page, entries) ==
    [page |-> page, last_page |-> last_page, next_page |-> next_page, result |-> entries]

NoReply == Reply(PyNone, PyNone, PyNone, <<>>)

CollectAtRest ==
    /\ rest_request = NoRequest
    /\ convert_to = "None"
    /\ current_request = NoRequest
    /\ reply = NoReply
    /\ collected = <<>>
    /\ sent = <<>>
    /\ replies = <<>>
    /\ pc = ""

ChainAtRest ==
    /\ handlers = <<>>
    /\ event = ""
    /\ invoked = <<>>
    /\ outcome = [status |-> "", result |-> "None"]

SheetAtRest ==
    /\ test_runs = <<>>
    /\ requested_runs = 0
    /\ number_of_runs = 0
    /\ skipped_runs = 0
    /\ offset = 0
    /\ run_index = 0
    /\ effective_run_index = 0
    /\ sheet = <<>>
    /\ phase = ""

(* --------------------------- the caller ------------------------------- *)
NoHeld == [ref |-> 0, of |-> 0, orig |-> <<>>]

Last(op, seg, status, msg, res, val, flags) ==
    [op |-> op, seg |-> seg, status |-> status, msg |-> msg, res |-> res,
     val |-> val, flags |-> flags, arg |-> <<>>]

Top == Len(cursors)
Self(i) == Cur(cursors[i].node, lists[cursors[i].path])

Init ==
    /\ tree \in Trees
    /\ LET made == __init__(<<>>, tree, <<>>)
       IN  /\ cursors = <<made.cursor>>
           /\ lists = made.heap
    /\ steps = <<0>>
    /\ held = NoHeld
    /\ muts = 0
    /\ last = Last("init", NoSeg, "ok", "", 1, PyNone, <<>>)
    /\ calls = <<>>
    /\ RequestsAtRest
    /\ CollectAtRest
    /\ ChainAtRest
    /\ SheetAtRest

(* the new cursor an operation returned joins the caller's chain *)
Push(node, path, n) ==
    LET made == __init__(lists, node, path)
    IN  /\ cursors' = Append(cursors, made.cursor)
        /\ lists' = made.heap
        /\ steps' = Append(steps, steps[Top] + n)


(* a navigation that extends the cursor's own path list before it checks   *)
(* the node, so that a failed call leaves the segment behind               *)
Navigate_appends_first(op, seg, o) ==
    /\ o.status = "ok" => Top < MaxCursors
    /\ IF o.status = "ok"
       THEN /\ Push(o.node, o.path, 1)
            /\ last' = Last(op, seg, "ok", "", Top + 1, PyNone, <<>>)
       ELSE /\ lists' = [lists EXCEPT ![cursors[Top].path] = Append(@, seg)]
            /\ UNCHANGED <<cursors, steps>>
            /\ last' = Last(op, seg, o.status, o.msg, 0, PyNone, <<>>)
    /\ calls' = <<>>
    /\ UNCHANGED <<tree, held, muts>>
    /\ UNCHANGED <<requestVars, collectVars, chainVars, sheetVars>>

Navigate(op, seg, o) ==
    /\ o.status = "ok" => Top < MaxCursors
    /\ IF o.status = "ok"
       THEN /\ Push(o.node, o.path, 1)
            /\ last' = Last(op, seg, "ok", "", Top + 1, PyNone, <<>>)
       ELSE /\ UNCHANGED <<cursors, lists, steps>>
            /\ last' = Last(op, seg, o.status, o.msg, 0, PyNone, <<>>)
    /\ calls' = <<>>
    /\ UNCHANGED <<tree, held, muts>>
    /\ UNCHANGED <<requestVars, collectVars, chainVars, sheetVars>>

(* cursor.<name> on the newest cursor *)
ChildByKey(name) == Navigate("childByKey", Key(name), GetAttr(Self(Top), name))

(* cursor[index] on the newest cursor *)
ChildByIndex(index) == Navigate("childByIndex", Index(index), __getitem__(Self(Top), index))

Value ==
    LET o == value(Self(Top))
    IN  /\ last' = Last("value", NoSeg, o.status, o.msg, 0, o.node, <<>>)
        /\ calls' = <<>>
        /\ UNCHANGED <<tree, lists, cursors, steps, held, muts>>
        /\ UNCHANGED <<requestVars, collectVars, chainVars, sheetVars>>

Classify ==
    /\ last' = Last("classify", NoSeg, "ok", "", 0, PyNone,
                    <<on_dict(Self(Top)), on_list(Self(Top)), on_data(Self(Top))>>)
    /\ calls' = <<>>
    /\ UNCHANGED <<tree, lists, cursors, steps, held, muts>>
    /\ UNCHANGED <<requestVars, collectVars, chainVars, sheetVars>>

(* p = cursor.get_path(): the caller now holds the returned list *)
GetPath ==
    /\ held' = [ref |-> get_path(cursors[Top]), of |-> Top, orig |-> lists[cursors[Top].path]]
    /\ last' = Last("get_path", NoSeg, "ok", "", 0, PyNone, <<>>)
    /\ calls' = <<>>
    /\ UNCHANGED <<tree, lists, cursors, steps, muts>>
    /\ UNCHANGED <<requestVars, collectVars, chainVars, sheetVars>>

(* the caller changes the list it holds: p.append(seg), p.pop(), p[0] = seg *)
Mutate(op, new) ==
    /\ held.ref # 0
    /\ muts < MaxMuts
    /\ lists' = [lists EXCEPT ![held.ref] = new]
    /\ muts' = muts + 1
    /\ last' = Last(op, NoSeg, "ok", "", 0, PyNone, <<>>)
    /\ calls' = <<>>
    /\ UNCHANGED <<tree, cursors, steps, held>>
    /\ UNCHANGED <<requestVars, collectVars, chainVars, sheetVars>>

CallerAppend(seg) ==
    /\ held.ref # 0
    /\ Mutate("append", Append(lists[held.ref], seg))

CallerPop ==
    /\ held.ref # 0
    /\ lists[held.ref] # <<>>
    /\ Mutate("pop", SubSeq(lists[held.ref], 1, Len(lists[held.ref]) - 1))

CallerOverwrite(seg) ==
    /\ held.ref # 0
    /\ lists[held.ref] # <<>>
    /\ lists[held.ref][1] # seg
    /\ Mutate("overwrite", [lists[held.ref] EXCEPT ![1] = seg])

Search(p) ==
    LET r == search(Self(Top), p)
        new == r.status = "found" /\ ~r.self
    IN  /\ new => Top < MaxCursors
        /\ IF new
           THEN Push(r.node, r.path, Len(r.path) - Len(Self(Top).path))
           ELSE UNCHANGED <<cursors, lists, steps>>
        /\ last' = [Last("search", NoSeg, r.status, p.name,
                         IF new THEN Top + 1 ELSE IF r.status = "found" THEN Top ELSE 0,
                         PyNone, <<>>) EXCEPT !.arg = p.arg]
        /\ calls' = r.calls
        /\ UNCHANGED <<tree, held, muts>>
        /\ UNCHANGED <<requestVars, collectVars, chainVars, sheetVars>>

Visit(h) ==
    LET r == visit(Self(Top), h)
    IN  /\ last' = Last("visit", NoSeg, IF r.raised THEN "raise" ELSE "ok", h, 0, PyNone, <<>>)
        /\ calls' = r.calls
        /\ UNCHANGED <<tree, lists, cursors, steps, held, muts>>
        /\ UNCHANGED <<requestVars, collectVars, chainVars, sheetVars>>

(* the caller drops its newest cursor (and the list it held of it) *)
Discard ==
    /\ Top > 1
    /\ cursors[Top].path = Len(lists)
    /\ cursors' = SubSeq(cursors, 1, Top - 1)
    /\ lists' = SubSeq(lists, 1, Len(lists) - 1)
    /\ steps' = SubSeq(steps, 1, Top - 1)
    /\ held' = IF held.of = Top THEN NoHeld ELSE held
    /\ last' = Last("discard", NoSeg, "ok", "", 0, PyNone, <<>>)
    /\ calls' = <<>>
    /\ UNCHANGED <<tree, muts>>
    /\ UNCHANGED <<requestVars, collectVars, chainVars, sheetVars>>

(* a caller that navigates, reads values and paths and changes the lists  *)
(* get_path() gave it                                                      *)
Next ==
    \/ \E name \in KeyNames : ChildByKey(name)
    \/ \E index \in Indices : ChildByIndex(index)
    \/ Value
    \/ Classify
    \/ GetPath
    \/ \E seg \in CallerSegments : CallerAppend(seg)
    \/ CallerPop
    \/ \E seg \in CallerSegments : CallerOverwrite(seg)
    \/ Discard

Spec == Init /\ [][Next]_vars

(* a caller that navigates, searches and visits, and leaves paths alone *)
NextTraversal ==
    \/ \E name \in KeyNames : ChildByKey(name)
    \/ \E index \in Indices : ChildByIndex(index)
    \/ Value
    \/ Classify
    \/ \E p \in Predicates : Search(p)
    \/ \E h \in Handlers : Visit(h)
    \/ Discard

SpecTraversal == Init /\ [][NextTraversal]_vars


(* a caller that navigates, reads values and paths, searches and visits *)
NextFrame ==
    \/ NextTraversal
    \/ GetPath

SpecFrame == Init /\ [][NextFrame]_vars

CursorAtRest ==
    /\ tree = PyNone
    /\ lists = <<>>
    /\ cursors = <<>>
    /\ steps = <<>>
    /\ held = NoHeld
    /\ muts = 0
    /\ last = Last("", NoSeg, "", "", 0, PyNone, <<>>)
    /\ calls = <<>>

(* ----------------------------- RestRequest ---------------------------- *)
(* A RestRequest object is the record of its instance attributes, each a  *)
(* Python value; `own` holds the attributes set on the instance beyond     *)
(* those of __init__. A str that is a URL or an endpoint is the sequence   *)
(* of its parts between "/" (the empty str is the empty sequence, "a/b/"   *)
(* is <<"a", "b", "">>).                                                    *)
InstanceAttributes ==
    {"auth", "base_url", "endpoint", "params", "body", "headers", "expect_json"}

(* the names the class gives every instance: its methods and Error *)
ClassAttributes ==
    {"set_params", "modify", "merge", "get_full_url", "extend_endpoint", "send", "get",
     "put", "post", "copy", "from_url", "Error"}

(* d[k] = v on a dict: a present key keeps its place *)
DictSet(d, k, v) ==
    IF Contains(d, k)
    THEN [d EXCEPT !.kids[CHOOSE i \in KeyPos(d, k) : TRUE] = v]
    ELSE [d EXCEPT !.keys = Append(@, k), !.kids = Append(@, v)]

(* d.update(e) *)
RECURSIVE DictUpdate(_, _, _)
DictUpdate(d, e, i) ==
    IF i > Len(e.keys) THEN d
    ELSE DictUpdate(DictSet(d, e.keys[i], e.kids[i]), e, i + 1)

(* s.rstrip("/") and s.lstrip("/") on the parts of a str *)
RECURSIVE RStrip(_)
RStrip(parts) ==
    IF parts # <<>> /\ parts[Len(parts)] = ""
    THEN RStrip(SubSeq(parts, 1, Len(parts) - 1))
    ELSE parts
RECURSIVE LStrip(_)
LStrip(parts) ==
    IF parts # <<>> /\ parts[1] = "" THEN LStrip(Tail(parts)) ELSE parts

(* RestRequest(base_url=..., endpoint=..., params=..., headers=...) with    *)
(* further keyword arguments                                               *)
RestRequest(base_url, endpoint, params, headers, kwargs) ==
    [type |-> "RestRequest",
     auth |-> PyNone,
     base_url |-> IF Truthy(base_url) THEN PyStr(RStrip(base_url.val)) ELSE PyStr(<<>>),
     endpoint |-> IF Truthy(endpoint) THEN PyStr(LStrip(endpoint.val)) ELSE PyStr(<<>>),
     params |-> DictUpdate(IF Truthy(params) THEN params ELSE PyDict(<<>>, <<>>), kwargs, 1),
     body |-> PyDict(<<>>, <<>>),
     headers |-> IF Truthy(headers) THEN headers ELSE PyDict(<<>>, <<>>),
     expect_json |-> PyBool("True"),
     own |-> PyDict(<<>>, <<>>)]

hasattr(self, k) ==
    k \in InstanceAttributes \cup ClassAttributes \/ Contains(self.own, k)

setattr(self, k, v) ==
    IF k \in InstanceAttributes
    THEN [self EXCEPT ![k] = v]
    ELSE [self EXCEPT !.own = DictSet(@, k, v)]

(* modify with keyword arguments changes the object it is called on and    *)
(* returns it                                                              *)
RECURSIVE modify(_, _, _)
modify(self, kwargs, i) ==
    IF i > Len(kwargs.keys) THEN self
    ELSE LET k == kwargs.keys[i]
             v == kwargs.kids[i]
         IN  modify(IF hasattr(self, k)
                    THEN setattr(self, k, v)
                    ELSE [self EXCEPT !.params = DictSet(@, k, v)],
                    kwargs, i + 1)

(* copy.deepcopy(self): an equal object that shares nothing with self *)
deepcopy(self) == self

(* a copy() that modifies self and returns it: no deepcopy *)
copy_in_place(self, kwargs) ==
    [self |-> modify(self, kwargs, 1), result |-> modify(self, kwargs, 1)]

(* copy with keyword arguments: self as the call leaves it, and the object *)
(* returned                                                                *)
copy(self, kwargs) ==
    [self |-> self, result |-> modify(deepcopy(self), kwargs, 1)]

(* merge(rest_request): self and the argument as the call leaves them, and *)
(* the object returned                                                     *)
merge(self, that) ==
    LET params == IF that.type = "RestRequest" THEN that.params ELSE that
        copied == copy(self, params)
    IN  [self |-> copied.self, that |-> that, result |-> copied.result]

(* set_params(params, further keyword arguments) changes the object it is  *)
(* called on and returns it                                                *)
set_params(self, params, kwargs) ==
    [self EXCEPT !.params =
        DictUpdate(IF Truthy(params) THEN params ELSE PyDict(<<>>, <<>>), kwargs, 1)]

(* the parts of str(v) *)
StrOf(v) == v.val

(* the parts of f"{a}/{b}": the "/" is always there *)
Slash(a, b) == (IF a = <<>> THEN <<"">> ELSE a) \o (IF b = <<>> THEN <<"">> ELSE b)

(* "/".join of the str of the first n items *)
RECURSIVE JoinSlash(_, _)
JoinSlash(items, n) ==
    IF n = 0 THEN <<>>
    ELSE IF n = 1 THEN StrOf(items[1])
    ELSE Slash(JoinSlash(items, n - 1), StrOf(items[n]))

(* extend_endpoint(extension), extension a str or a list, changes the      *)
(* object it is called on and returns it                                   *)
extend_endpoint(self, extension) ==
    LET joined == IF IsInstanceList(extension)
                  THEN JoinSlash(extension.kids, Len(extension.kids))
                  ELSE StrOf(extension)
    IN  [self EXCEPT !.endpoint = PyStr(Slash(RStrip(StrOf(@)), LStrip(joined)))]

(* --------------- a caller of RestRequest and the builders ------------- *)
(* testmo_projects_request(base_request) and the other builders of        *)
(* lib/testmo_access.py: the base request as the call leaves it, and the   *)
(* request returned                                                        *)
testmo_projects_request(base_request) ==
    copy(base_request, PyDict(<<"endpoint">>, <<PyStr(<<"projects">>)>>))

testmo_project_request(project_id, base_request) ==
    LET made == testmo_projects_request(base_request)
    IN  [made EXCEPT !.result = extend_endpoint(@, PyStr(<<project_id>>))]

testmo_project_runs_request(project_id, base_request) ==
    LET made == testmo_project_request(project_id, base_request)
    IN  [made EXCEPT !.result = extend_endpoint(@, PyStr(<<"runs">>))]

testmo_project_run_request(run_id, base_request) ==
    LET made == copy(base_request, PyDict(<<"endpoint">>, <<PyStr(<<"runs">>)>>))
    IN  [made EXCEPT !.result = extend_endpoint(@, PyStr(<<run_id>>))]

testmo_project_run_results_request(run_id, base_request) ==
    LET made == testmo_project_run_request(run_id, base_request)
    IN  [made EXCEPT !.result = extend_endpoint(@, PyStr(<<"results">>))]

(* names and values of query parameters; "endpoint" is also an attribute   *)
(* of every request and "get" one of its methods                           *)
ParamNames == {"page", "per_page", "endpoint", "get"}
ParamValues == {PyInt("2"), PyStr(<<"x">>)}

(* the sequences of distinct names up to the given length *)
RECURSIVE KeySeqs(_)
KeySeqs(len) ==
    IF len = 0 THEN {<<>>}
    ELSE KeySeqs(len - 1)
         \cup {Append(ks, k) : ks \in {q \in KeySeqs(len - 1) : Len(q) = len - 1},
                               k \in ParamNames}
RangeOf(seq) == {seq[i] : i \in 1..Len(seq)}
DistinctKeySeqs == {ks \in KeySeqs(MaxParams) : Cardinality(RangeOf(ks)) = Len(ks)}
ParamDicts ==
    UNION {{PyDict(ks, vs) : vs \in [1..Len(ks) -> ParamValues]} : ks \in DistinctKeySeqs}

TestmoUrl == PyStr(<<"https:", "", "testmo", "api", "v1">>)
(* the headers of the base request, the token being T *)
TestmoHeaders ==
    PyDict(<<"accept", "Authorization">>,
           <<PyStr(<<"application", "json">>), PyStr(<<"Bearer T">>)>>)

(* the base request of testmo_access.py (lines 40-46), and requests that    *)
(* carry an endpoint and parameters already                                 *)
BaseRequests ==
    {RestRequest(TestmoUrl, PyStr(<<>>), PyNone, TestmoHeaders, PyDict(<<>>, <<>>)),
     RestRequest(PyStr(TestmoUrl.val \o <<"">>), PyStr(<<"", "runs">>),
                 PyDict(<<"per_page">>, <<PyInt("100")>>), TestmoHeaders,
                 PyDict(<<>>, <<>>)),
     RestRequest(TestmoUrl, PyStr(<<"projects", "44">>),
                 PyDict(<<"page", "per_page">>, <<PyInt("1"), PyInt("100")>>),
                 TestmoHeaders, PyDict(<<"expands">>, <<PyStr(<<"users">>)>>))}

(* what merge is given: a dict, or a request that carries the dict as its   *)
(* params                                                                  *)
MergeArguments ==
    ParamDicts
    \cup {RestRequest(PyStr(<<"https:", "", "elsewhere">>), PyStr(<<"user">>), d, PyNone,
                      PyDict(<<>>, <<>>)) : d \in ParamDicts}

(* the keyword arguments copy is called with: one attribute (lines 47-50),   *)
(* one parameter (line 114 of testmo_access.py), both                       *)
CopyArguments ==
    {PyDict(<<"endpoint">>, <<PyStr(<<"user">>)>>),
     PyDict(<<"page">>, <<PyInt("2")>>),
     PyDict(<<"per_page", "base_url">>, <<PyInt("50"), PyStr(<<"https:", "", "elsewhere">>)>>)}

(* the keyword arguments modify is called with: base_url as line 229 of     *)
(* testmo_overview.py does, a parameter, and a name that is an attribute   *)
ModifyArguments ==
    {PyDict(<<"base_url">>, <<PyStr(<<"https:", "", "elsewhere">>)>>),
     PyDict(<<"page">>, <<PyInt("2")>>),
     PyDict(<<"endpoint", "per_page">>, <<PyStr(<<"user">>), PyInt("50")>>)}

(* what set_params is given: params (None or a dict) and keyword arguments  *)
SetParamsArguments ==
    {<<PyNone, PyDict(<<>>, <<>>)>>,
     <<PyDict(<<"page">>, <<PyInt("2")>>), PyDict(<<>>, <<>>)>>,
     <<PyDict(<<"page">>, <<PyInt("2")>>), PyDict(<<"page">>, <<PyInt("3")>>)>>}

(* what extend_endpoint is given: "", "/", a name, a list *)
Extensions ==
    {PyStr(<<>>), PyStr(<<"", "">>), PyStr(<<"results">>),
     PyList(<<PyInt("44"), PyStr(<<"runs">>)>>)}

ProjectIds == {"44"}
RunIds == {"455"}

InitRequest ==
    /\ request \in BaseRequests
    /\ other \in MergeArguments
    /\ built = NoRequest
    /\ request_op = ""
    /\ CursorAtRest
    /\ CollectAtRest
    /\ ChainAtRest
    /\ SheetAtRest

Returned(op, made) ==
    /\ request' = made.self
    /\ built' = made.result
    /\ request_op' = op
    /\ UNCHANGED <<cursorVars, collectVars, chainVars, sheetVars>>

(* built = request.merge(other) *)
Merge ==
    LET made == merge(request, other)
    IN  /\ other' = made.that
        /\ Returned("merge", made)

(* built = request.copy(k=v, ...) *)
Copy(kwargs) ==
    /\ other' = other
    /\ Returned("copy", copy(request, kwargs))

(* request.modify(k=v, ...): built is request itself *)
Modify(kwargs) ==
    LET made == modify(request, kwargs, 1)
    IN  /\ other' = other
        /\ Returned("modify", [self |-> made, result |-> made])

(* request.set_params(params, k=v, ...) *)
SetParams(params, kwargs) ==
    LET made == set_params(request, params, kwargs)
    IN  /\ other' = other
        /\ Returned("set_params", [self |-> made, result |-> made])

(* request.extend_endpoint(extension) *)
ExtendEndpoint(extension) ==
    LET made == extend_endpoint(request, extension)
    IN  /\ Len(StrOf(request.endpoint)) < MaxEndpoint
        /\ other' = other
        /\ Returned("extend_endpoint", [self |-> made, result |-> made])

ProjectsRequest ==
    /\ other' = other
    /\ Returned("testmo_projects_request", testmo_projects_request(request))

ProjectRequest(project_id) ==
    /\ other' = other
    /\ Returned("testmo_project_request", testmo_project_request(project_id, request))

ProjectRunsRequest(project_id) ==
    /\ other' = other
    /\ Returned("testmo_project_runs_request",
                testmo_project_runs_request(project_id, request))

ProjectRunRequest(run_id) ==
    /\ other' = other
    /\ Returned("testmo_project_run_request", testmo_project_run_request(run_id, request))

ProjectRunResultsRequest(run_id) ==
    /\ other' = other
    /\ Returned("testmo_project_run_results_request",
                testmo_project_run_results_request(run_id, request))

NextRequest ==
    \/ Merge
    \/ \E kwargs \in CopyArguments : Copy(kwargs)
    \/ \E kwargs \in ModifyArguments : Modify(kwargs)
    \/ \E arguments \in SetParamsArguments : SetParams(arguments[1], arguments[2])
    \/ \E extension \in Extensions : ExtendEndpoint(extension)
    \/ ProjectsRequest
    \/ \E project_id \in ProjectIds : ProjectRequest(project_id)
    \/ \E project_id \in ProjectIds : ProjectRunsRequest(project_id)
    \/ \E run_id \in RunIds : ProjectRunRequest(run_id)
    \/ \E run_id \in RunIds : ProjectRunResultsRequest(run_id)

SpecRequest == InitRequest /\ [][NextRequest]_vars

(* --------------------------- testmo_collect --------------------------- *)
(* pc: "send" (line 109, before the request goes out), "wait" (the request *)
(* is out), "got" (the reply is there, line 110), "convert" (after the     *)
(* break, line 116), "done" (returned), "raised" (get() raised).           *)

(* stop when the reply names no next page *)
IsLastPage_no_next(r) == r.next_page = PyNone

(* reply['page'] == reply['last_page'] *)
IsLastPage(r) == r.page = r.last_page

(* what convert_to makes of an entry: testmo_project_run_reply.from_data   *)
(* and the like wrap the dict in a model object                            *)
from_data(entry) == [type |-> "Model", keys |-> <<>>, kids |-> <<entry>>, val |-> <<>>]

Converted(entries) ==
    IF convert_to # "None"
    THEN [i \in 1..Len(entries) |-> from_data(entries[i])]
    ELSE entries

(* the server: any page numbers, with or without a next page, and the      *)
(* entries of the n-th reply, none or two                                  *)
Digits == <<"1", "2", "3", "4", "5", "6">>
Entry(n, j) == PyDict(<<"id">>, <<PyStr(<<"entry", Digits[n], Digits[j]>>)>>)
PageNumbers == {PyInt("1"), PyInt("2")}
Replies(n) ==
    {Reply(page, last_page, next_page, entries) :
        page \in PageNumbers, last_page \in PageNumbers,
        next_page \in {PyInt("2"), PyNone},
        entries \in {<<>>, <<Entry(n, 1), Entry(n, 2)>>}}

CollectArguments ==
    {testmo_projects_request(CHOOSE r \in BaseRequests : r.params = PyDict(<<>>, <<>>)).result,
     testmo_project_runs_request("44",
         CHOOSE r \in BaseRequests : Contains(r.params, "page")).result}

InitCollect ==
    /\ rest_request \in CollectArguments
    /\ convert_to \in {"None", "from_data"}
    /\ current_request = rest_request
    /\ reply = NoReply
    /\ collected = <<>>
    /\ sent = <<>>
    /\ replies = <<>>
    /\ pc = "send"
    /\ CursorAtRest
    /\ RequestsAtRest
    /\ ChainAtRest
    /\ SheetAtRest

(* current_request.get() sends the request *)
Send ==
    /\ pc = "send"
    /\ Len(sent) < MaxRequests
    /\ sent' = Append(sent, current_request)
    /\ pc' = "wait"
    /\ UNCHANGED <<rest_request, convert_to, current_request, reply, collected, replies>>
    /\ UNCHANGED <<cursorVars, requestVars, chainVars, sheetVars>>

(* get() returns the parsed reply *)
Receive(r) ==
    /\ pc = "wait"
    /\ reply' = r
    /\ replies' = Append(replies, r)
    /\ pc' = "got"
    /\ UNCHANGED <<rest_request, convert_to, current_request, collected, sent>>
    /\ UNCHANGED <<cursorVars, requestVars, chainVars, sheetVars>>

(* get() raises RestRequest.Error (a status above 299): testmo_collect     *)
(* does not catch it                                                       *)
ReceiveError ==
    /\ pc = "wait"
    /\ pc' = "raised"
    /\ UNCHANGED <<rest_request, convert_to, current_request, reply, collected, sent, replies>>
    /\ UNCHANGED <<cursorVars, requestVars, chainVars, sheetVars>>

(* lines 110-114: extend the result, leave the loop on the last page, else *)
(* copy the request for the next page                                      *)
Extend ==
    /\ pc = "got"
    /\ collected' = collected \o reply.result
    /\ IF IsLastPage(reply)
       THEN /\ pc' = "convert"
            /\ UNCHANGED current_request
       ELSE /\ pc' = "send"
            /\ current_request' =
                    copy(current_request, PyDict(<<"page">>, <<reply.next_page>>)).result
    /\ UNCHANGED <<rest_request, convert_to, reply, sent, replies>>
    /\ UNCHANGED <<cursorVars, requestVars, chainVars, sheetVars>>

(* lines 116-119 *)
Convert ==
    /\ pc = "convert"
    /\ collected' = Converted(collected)
    /\ pc' = "done"
    /\ UNCHANGED <<rest_request, convert_to, current_request, reply, sent, replies>>
    /\ UNCHANGED <<cursorVars, requestVars, chainVars, sheetVars>>

NextCollect ==
    \/ Send
    \/ \E r \in Replies(Len(replies) + 1) : Receive(r)
    \/ ReceiveError
    \/ Extend
    \/ Convert

(* testmo_collect runs on: none of its own steps waits for anything but    *)
(* the reply                                                               *)
SpecCollect ==
    InitCollect /\ [][NextCollect]_vars
    /\ WF_vars(Send) /\ WF_vars(Extend) /\ WF_vars(Convert)

(* ----------------------------- HandlerChain --------------------------- *)
(* A handler is an object of a class: [cls, defines], defines mapping the  *)
(* names of the methods the class or a parent other than                   *)
(* ApplicationEventHandler defines to [by, does]: the class the function   *)
(* is defined in, and what it does when called: "None" (returns None),     *)
(* "0", "names", "title" (returns that value), "Abort" (raises             *)
(* HandlerChain.Abort), "exit" (raises something else, as                  *)
(* StdEventHandler.project_does_not_exist does with sys.exit).             *)
BaseMethods == {"csv_read_complete", "project_started", "project_does_not_exist"}
NoMethod == <<>>

(* getattr(cls, method_name, None), unwrapped: the function found, named by *)
(* the class that defines it                                                *)
ClassFunction(cls, method_name) ==
    IF method_name \in DOMAIN cls.defines THEN <<cls.defines[method_name].by, method_name>>
    ELSE IF method_name \in BaseMethods THEN <<"ApplicationEventHandler", method_name>>
    ELSE NoMethod

BaseFunction(method_name) ==
    IF method_name \in BaseMethods THEN <<"ApplicationEventHandler", method_name>>
    ELSE NoMethod

(* every handler counts as overriding *)
is_method_overridden_always(obj, method_name) == TRUE

is_method_overridden(obj, method_name) ==
    LET sub_func == ClassFunction(obj, method_name)
        base_func == BaseFunction(method_name)
    IN  IF sub_func = NoMethod \/ base_func = NoMethod
        THEN FALSE
        ELSE sub_func # base_func

(* method(kwargs): the methods of ApplicationEventHandler are `pass` *)
CallMethod(handler, method_name) ==
    IF method_name \in DOMAIN handler.defines
    THEN handler.defines[method_name].does
    ELSE "None"

ChainResult(status, so_far, seen) == [status |-> status, result |-> so_far, invoked |-> seen]

(* _call_handlers: the loop from handler i on, with the result so far *)
RECURSIVE _call_handlers(_, _, _, _, _)
_call_handlers(hs, method_name, i, so_far, seen) ==
    IF i > Len(hs) THEN ChainResult("return", so_far, seen)
    ELSE IF ~is_method_overridden(hs[i], method_name)
         THEN _call_handlers(hs, method_name, i + 1, so_far, seen)
         ELSE LET call_result == CallMethod(hs[i], method_name)
              IN  IF call_result = "Abort"
                  THEN ChainResult("return", so_far, Append(seen, i))
                  ELSE IF call_result = "exit"
                       THEN ChainResult("raise", so_far, Append(seen, i))
                       ELSE _call_handlers(hs, method_name, i + 1,
                                           IF call_result # "None" THEN call_result ELSE so_far,
                                           Append(seen, i))

Method(by, does) == [by |-> by, does |-> does]

HandlerClass(cls, defines) == [cls |-> cls, defines |-> defines]

(* the classes of the program (lines 709-782, 820-830, 855-950, 953-997),  *)
(* InterActiveMode a subclass of StdEventHandler, and two classes a caller *)
(* writes: Titles, whose methods return values, and Aborting, whose method *)
(* raises HandlerChain.Abort                                               *)
HandlerClasses ==
    {HandlerClass("ApplicationEventHandler", <<>>),
     HandlerClass("StdEventHandler",
                  [m \in {"project_does_not_exist"} |-> Method("StdEventHandler", "exit")]),
     HandlerClass("InterActiveMode",
                  [m \in {"csv_read_complete", "project_does_not_exist"} |->
                      IF m = "csv_read_complete"
                      THEN Method("InterActiveMode", "names")
                      ELSE Method("StdEventHandler", "exit")]),
     HandlerClass("StatusMessage",
                  [m \in {"csv_read_complete", "project_started"} |->
                      Method("StatusMessage", "None")]),
     HandlerClass("Titles",
                  [m \in {"csv_read_complete", "project_started", "project_does_not_exist",
                           "no_event"} |->
                      Method("Titles", IF m = "csv_read_complete" THEN "0" ELSE "title")]),
     HandlerClass("Aborting",
                  [m \in {"csv_read_complete"} |-> Method("Aborting", "Abort")])}

(* the names called on a chain: events, and one that is no method of        *)
(* ApplicationEventHandler                                                  *)
EventNames == BaseMethods \cup {"no_event"}

InitChain ==
    /\ handlers \in UNION {[1..n -> HandlerClasses] : n \in 0..MaxHandlers}
    /\ event = ""
    /\ invoked = <<>>
    /\ outcome = [status |-> "", result |-> "None"]
    /\ CursorAtRest
    /\ RequestsAtRest
    /\ CollectAtRest
    /\ SheetAtRest

(* chain.<name>(kwargs) *)
Dispatch(method_name) ==
    LET r == _call_handlers(handlers, method_name, 1, "None", <<>>)
    IN  /\ event' = method_name
        /\ invoked' = r.invoked
        /\ outcome' = [status |-> r.status, result |-> r.result]
        /\ UNCHANGED handlers
        /\ UNCHANGED <<cursorVars, requestVars, collectVars, sheetVars>>

(* chain.Abort: the exception class, no dispatch *)
AccessAbort ==
    /\ event' = "Abort"
    /\ invoked' = <<>>
    /\ outcome' = [status |-> "attribute", result |-> "HandlerChain.Abort"]
    /\ UNCHANGED handlers
    /\ UNCHANGED <<cursorVars, requestVars, collectVars, sheetVars>>

NextChain ==
    \/ \E method_name \in EventNames : Dispatch(method_name)
    \/ AccessAbort

SpecChain == InitChain /\ [][NextChain]_vars

(* ------------------ table_to_sheet: the run selection ----------------- *)
(* A test run is [id, created_at, is_started, is_closed]; its id stands    *)
(* for its name. phase: "collected" (line 629, the runs are there),        *)
(* "processing" (at the head of the loop of line 643), "selected" (the run *)
(* is to be processed, line 657), "collecting" (in the testmo_collect of   *)
(* line 461), "raised" (left by its exception), "done" (the loop is over). *)
TestRun(id, created_at, is_started, is_closed) ==
    [id |-> id, created_at |-> created_at, is_started |-> is_started,
     is_closed |-> is_closed]

testrun_is_active(test_run) == test_run.is_started /\ ~test_run.is_closed

(* sorted(test_runs, key=lambda r: r.created_at): stable *)
RECURSIVE Insert(_, _)
Insert(ordered, run) ==
    IF ordered = <<>> THEN <<run>>
    ELSE IF ordered[Len(ordered)].created_at <= run.created_at
         THEN Append(ordered, run)
         ELSE Append(Insert(SubSeq(ordered, 1, Len(ordered) - 1), run), ordered[Len(ordered)])
RECURSIVE SortedUpTo(_, _)
SortedUpTo(runs, n) ==
    IF n = 0 THEN <<>> ELSE Insert(SortedUpTo(runs, n - 1), runs[n])
sorted(runs) == SortedUpTo(runs, Len(runs))

std_fields == <<"Case ID", "Case", "Folder", "State", "Status (latest)">>
additional_columns == <<"Priority">>
sheet_column_names == std_fields \o additional_columns
table_start == <<9, 1>>
runs_start == <<table_start[1], table_start[2] + Len(sheet_column_names)>>

(* the column without the offset of the skipped runs *)
run_column_index_without_offset(_run_index, _column_offset) == runs_start[2] + _run_index

run_column_index(_run_index, _column_offset) == runs_start[2] + _run_index - _column_offset

RunKinds ==
    {<<created_at, state[1], state[2]>> :
        created_at \in 1..2, state \in {<<TRUE, FALSE>>, <<TRUE, TRUE>>, <<FALSE, FALSE>>}}
RunLists ==
    UNION {{[i \in 1..n |-> TestRun(i, kinds[i][1], kinds[i][2], kinds[i][3])] :
                kinds \in [1..n -> RunKinds]} : n \in 0..MaxRuns}

InitSheet ==
    /\ test_runs \in RunLists
    /\ requested_runs \in (0 - 2)..(MaxRuns + 1)
    /\ number_of_runs = requested_runs
    /\ skipped_runs = 0
    /\ offset = 0
    /\ run_index = 0
    /\ effective_run_index = 0
    /\ sheet = <<>>
    /\ phase = "collected"
    /\ CursorAtRest
    /\ RequestsAtRest
    /\ CollectAtRest
    /\ ChainAtRest

(* lines 632-642 *)
SelectRuns ==
    /\ phase = "collected"
    /\ LET total_run_count == Len(test_runs)
       IN  /\ skipped_runs' = total_run_count - number_of_runs
           /\ IF number_of_runs >= total_run_count
              THEN number_of_runs' = 0 - 1 /\ offset' = 0
              ELSE IF number_of_runs > 0
                   THEN offset' = total_run_count - number_of_runs /\ UNCHANGED number_of_runs
                   ELSE offset' = 0 /\ UNCHANGED number_of_runs
    /\ effective_run_index' = 0 - 1
    /\ run_index' = 0
    /\ phase' = "processing"
    /\ UNCHANGED <<test_runs, requested_runs, sheet>>
    /\ UNCHANGED <<cursorVars, requestVars, collectVars, chainVars>>

(* lines 644-655 of one iteration of the loop: the run is left out, or     *)
(* effective_run_index is set and the run is processed                     *)
ProcessRun ==
    /\ phase = "processing"
    /\ run_index < Len(test_runs)
    /\ LET test_run == sorted(test_runs)[run_index + 1]
           continue == /\ run_index' = run_index + 1
                       /\ UNCHANGED <<effective_run_index, phase>>
       IN  IF number_of_runs = 0
           THEN IF testrun_is_active(test_run)
                THEN /\ effective_run_index' = effective_run_index + 1
                     /\ phase' = "selected"
                     /\ UNCHANGED run_index
                ELSE continue
           ELSE IF number_of_runs > 0
                THEN IF run_index < skipped_runs
                     THEN continue
                     ELSE /\ effective_run_index' = run_index
                          /\ phase' = "selected"
                          /\ UNCHANGED run_index
                ELSE /\ effective_run_index' = run_index
                     /\ phase' = "selected"
                     /\ UNCHANGED run_index
    /\ UNCHANGED <<test_runs, requested_runs, number_of_runs, skipped_runs, offset, sheet>>
    /\ UNCHANGED <<cursorVars, requestVars, collectVars, chainVars>>

(* the base request of testmo_overview.py (testmo_request) *)
testmo_request == CHOOSE r \in BaseRequests : r.params = PyDict(<<>>, <<>>)

(* lines 657-466: test_run_processing_started has been called back, and    *)
(* _insert_test_run_results calls testmo_collect for the results of the    *)
(* run                                                                     *)
CollectResults ==
    /\ phase = "selected"
    /\ LET test_run == sorted(test_runs)[run_index + 1]
       IN  rest_request' =
               testmo_project_run_results_request(Digits[test_run.id], testmo_request).result
    /\ convert_to' = "from_data"
    /\ current_request' = rest_request'
    /\ reply' = NoReply
    /\ collected' = <<>>
    /\ sent' = <<>>
    /\ replies' = <<>>
    /\ pc' = "send"
    /\ phase' = "collecting"
    /\ UNCHANGED <<test_runs, requested_runs, number_of_runs, skipped_runs, offset,
                   run_index, effective_run_index, sheet>>
    /\ UNCHANGED <<cursorVars, requestVars, chainVars>>

(* what the server answers a results request with: the only page, or the   *)
(* first of two                                                            *)
ResultReplies(n) ==
    {Reply(PyInt("1"), PyInt("1"), PyNone, <<Entry(n, 1), Entry(n, 2)>>),
     Reply(PyInt("1"), PyInt("2"), PyInt("2"), <<>>)}

(* testmo_collect has returned and is gone *)
CollectReturned ==
    /\ rest_request' = NoRequest
    /\ convert_to' = "None"
    /\ current_request' = NoRequest
    /\ reply' = NoReply
    /\ collected' = <<>>
    /\ sent' = <<>>
    /\ replies' = <<>>
    /\ pc' = ""

(* _insert_test_run_results from line 467 on: the title cell of the run,   *)
(* and the end of the iteration (line 661)                                 *)
InsertTestRunResults ==
    /\ phase = "collecting"
    /\ pc = "done"
    /\ LET test_run == sorted(test_runs)[run_index + 1]
       IN  sheet' = Append(sheet, [column |-> run_column_index(effective_run_index, offset),
                                   run |-> test_run.id])
    /\ run_index' = run_index + 1
    /\ phase' = "processing"
    /\ CollectReturned
    /\ UNCHANGED <<test_runs, requested_runs, number_of_runs, skipped_runs, offset,
                   effective_run_index>>
    /\ UNCHANGED <<cursorVars, requestVars, chainVars>>

(* testmo_collect raised RestRequest.Error: nothing catches it, and        *)
(* table_to_sheet is left                                                  *)
CollectRaised ==
    /\ phase = "collecting"
    /\ pc = "raised"
    /\ phase' = "raised"
    /\ CollectReturned
    /\ UNCHANGED <<test_runs, requested_runs, number_of_runs, skipped_runs, offset,
                   run_index, effective_run_index, sheet>>
    /\ UNCHANGED <<cursorVars, requestVars, chainVars>>

(* the loop is over *)
RunsProcessed ==
    /\ phase = "processing"
    /\ run_index = Len(test_runs)
    /\ phase' = "done"
    /\ UNCHANGED <<test_runs, requested_runs, number_of_runs, skipped_runs, offset,
                   run_index, effective_run_index, sheet>>
    /\ UNCHANGED <<cursorVars, requestVars, collectVars, chainVars>>

NextSheet ==
    \/ SelectRuns
    \/ ProcessRun
    \/ CollectResults
    \/ Send
    \/ \E r \in ResultReplies(Len(replies) + 1) : Receive(r)
    \/ ReceiveError
    \/ Extend
    \/ Convert
    \/ InsertTestRunResults
    \/ CollectRaised
    \/ RunsProcessed

SpecSheet == InitSheet /\ [][NextSheet]_vars

(* ====================================================================== *)
(*                              Properties                                *)
(* ====================================================================== *)
CallCursor(k) == Cur(calls[k].node, calls[k].path)

(* every cursor the caller has or was handed: its chain, and the cursors   *)
(* the last search or visit passed to the predicate or handler             *)
Views == {Self(i) : i \in 1..Top} \cup {CallCursor(k) : k \in 1..Len(calls)}

IsStrictPrefix(p, q) == Len(p) < Len(q) /\ SubSeq(q, 1, Len(p)) = p

(* re-navigation from a new root cursor through the segments of P: a key   *)
(* by attribute access, an index by subscription                           *)
RECURSIVE Replay(_, _, _)
Replay(o, P, i) ==
    IF i > Len(P) \/ o.status # "ok" THEN o
    ELSE Replay(IF P[i].kind = "key"
                THEN GetAttr(Cur(o.node, o.path), P[i].name)
                ELSE __getitem__(Cur(o.node, o.path), P[i].idx),
                P, i + 1)

Renavigate(P) == Replay(Outcome("ok", "", tree, <<>>), P, 1)

(* C1: for every cursor C with P = C.path(), navigating again from the root *)
(* through the segments of P succeeds at every step and ends on a cursor    *)
(* with C's node and the path P.                                            *)
C1_PathRoundTrip ==
    \A c \in Views :
        LET o == Renavigate(c.path)
        IN  o.status = "ok" /\ o.node = c.node /\ o.path = c.path

(* C2: the root cursor has an empty path and in every state the length of  *)
(* a cursor's path is the number of navigation steps that led to it.       *)
C2_PathLengthIsDepth ==
    \A i \in 1..Top : Len(lists[cursors[i].path]) = steps[i]

(* C3: on a Mapping node, attribute access with any key present in the     *)
(* mapping returns the cursor (node[name], path + [name]).                 *)
C3_ChildByKeySucceeds ==
    \A c \in Views : \A name \in KeyNames :
        (on_dict(c) /\ Contains(c.node, name)) =>
            LET o == GetAttr(c, name)
            IN  /\ o.status = "ok"
                /\ o.node = Lookup(c.node, name)
                /\ o.path = Append(c.path, Key(name))

(* C4: attribute access fails on a node that is no Mapping and fails on a  *)
(* Mapping without the key, and the two failures are errors of different   *)
(* kinds. Stated for names that are no members of the cursor (C3 is about  *)
(* those).                                                                 *)
C4_DistinctErrorKinds ==
    \A c \in Views : \A d \in Views : \A name \in KeyNames \ Members :
        (~on_dict(c) /\ on_dict(d) /\ ~Contains(d.node, name)) =>
            LET wrongKind == GetAttr(c, name)
                missing == GetAttr(d, name)
            IN  /\ wrongKind.status \notin {"ok", "member"}
                /\ missing.status \notin {"ok", "member"}
                /\ wrongKind.status # missing.status

(* C5: on a Sequence of length n, cursor[i] is the cursor (node[i],        *)
(* path + [i]) for 0 <= i < n and fails with IndexError for every other i; *)
(* on a node that is no Sequence it fails with TypeError for every i.      *)
C5_ChildByIndex ==
    \A c \in Views : \A i \in Indices :
        LET o == __getitem__(c, i)
        IN  IF on_list(c)
            THEN IF 0 <= i /\ i < Len(c.node.kids)
                 THEN /\ o.status = "ok"
                      /\ o.node = c.node.kids[i + 1]
                      /\ o.path = Append(c.path, Index(i))
                 ELSE o.status = "IndexError"
            ELSE o.status = "TypeError"

(* C6: value() fails with TypeError on a Mapping or a Sequence and returns *)
(* the node itself on a Terminal.                                          *)
C6_Value ==
    \A c \in Views :
        LET o == value(c)
        IN  IF on_dict(c) \/ on_list(c)
            THEN o.status = "TypeError"
            ELSE o.status = "ok" /\ o.node = c.node

ExactlyOne(a, b, c) == (a /\ ~b /\ ~c) \/ (~a /\ b /\ ~c) \/ (~a /\ ~b /\ c)

(* C7: for every node exactly one of on_dict, on_list and on_data is true, *)
(* and on_data is true exactly when the other two are false.               *)
C7_Classification ==
    /\ \A c \in Views :
        /\ ExactlyOne(on_dict(c), on_list(c), on_data(c))
        /\ on_data(c) = (~on_dict(c) /\ ~on_list(c))
    /\ last.op = "classify" => ExactlyOne(last.flags[1], last.flags[2], last.flags[3])

C7_Witness ==
    /\ last.op = "classify"
    /\ last.flags = <<FALSE, TRUE, FALSE>>
    /\ Top > 1

(* C8: a str, bytes or bytearray node is a Terminal: on_list is false and  *)
(* on_data true, cursor[i] fails for every i, and search and visit call    *)
(* the predicate or handler once for the node and never for a cursor below *)
(* it.                                                                     *)
C8_StringsAreTerminals ==
    /\ \A c \in Views :
        IsInstanceStrBytes(c.node) =>
            /\ ~on_list(c)
            /\ on_data(c)
            /\ \A i \in Indices : __getitem__(c, i).status \in {"TypeError", "IndexError"}
    /\ \A k \in 1..Len(calls) :
        IsInstanceStrBytes(calls[k].node) =>
            \A j \in 1..Len(calls) :
                /\ ~IsStrictPrefix(calls[k].path, calls[j].path)
                /\ calls[j].path = calls[k].path => j = k

C8_Witness ==
    /\ last.op = "search"
    /\ last.status = "none"
    /\ \E k \in 1..Len(calls) : calls[k].node = PyStr(<<"a", "b">>) /\ k < Len(calls)

(* C9: after the caller changed the list get_path() returned, the path of  *)
(* the cursor it came from is what it was when get_path() was called.      *)
C9_PathIsACopy ==
    held.ref # 0 => lists[cursors[held.of].path] = held.orig

(* the pre-order enumeration of a subtree: the node, then its children in  *)
(* entry order (Mapping) or index order (list-like Sequence)               *)
RECURSIVE PreOrder(_, _)
RECURSIVE PreOrderOfChildren(_, _, _)
PreOrderOfChildren(n, path, i) ==
    IF i > Len(n.kids) THEN <<>>
    ELSE PreOrder(n.kids[i],
                  Append(path, IF n.type \in {"dict", "mappingproxy"}
                               THEN Key(n.keys[i]) ELSE Index(i - 1)))
         \o PreOrderOfChildren(n, path, i + 1)
PreOrder(n, path) == <<Cur(n, path)>> \o PreOrderOfChildren(n, path, 1)

LastPred == Pred(last.msg, last.arg)
Matches(seq) == {k \in 1..Len(seq) : EvalPred(LastPred, seq[k]) = "true"}
First(S) == CHOOSE k \in S : \A j \in S : k <= j

(* C10: search returns None exactly when no node of the subtree satisfies  *)
(* the predicate, and otherwise the cursor of the first satisfying node in *)
(* pre-order.                                                              *)
C10_SearchResult ==
    (last.op = "search" /\ last.status \in {"found", "none"}) =>
        LET pre == PreOrder(calls[1].node, calls[1].path)
        IN  /\ (last.status = "none") = (Matches(pre) = {})
            /\ last.status = "found" =>
                /\ last.res \in 1..Top
                /\ Self(last.res) = pre[First(Matches(pre))]
                /\ EvalPred(LastPred, Self(last.res)) = "true"

C10_Witness ==
    /\ last.op = "search"
    /\ last.status = "found"
    /\ Len(calls) >= 4
    /\ Len(Self(last.res).path) >= 2
    /\ \E k \in 1..(Len(calls) - 1) : calls[k].ret = "false"

CallCursors == [k \in 1..Len(calls) |-> CallCursor(k)]

(* C11: a search that returns has evaluated the predicate on exactly the   *)
(* pre-order enumeration of the subtree up to and including the first      *)
(* cursor the predicate is true for (on all of it when there is none), in  *)
(* that order, each cursor once.                                           *)
C11_SearchOrderAndStop ==
    (last.op = "search" /\ last.status \in {"found", "none"}) =>
        LET pre == PreOrder(calls[1].node, calls[1].path)
            n == IF Matches(pre) = {} THEN Len(pre) ELSE First(Matches(pre))
        IN  /\ CallCursors = SubSeq(pre, 1, n)
            /\ \A k \in 1..Len(calls) :
                /\ calls[k].entering
                /\ calls[k].ret = "true" <=> (k = Len(calls) /\ last.status = "found")
                /\ \A j \in 1..Len(calls) : calls[j].path = calls[k].path => j = k

C11_Witness ==
    /\ last.op = "search"
    /\ last.status = "found"
    /\ Len(calls) >= 3
    /\ Len(calls) < Len(PreOrder(calls[1].node, calls[1].path))
    /\ Len(calls[Len(calls)].path) < Len(calls[Len(calls) - 1].path)

IsContainer(n) == n.type \in {"dict", "mappingproxy", "list", "tuple"}
EnterCalls(path) == {k \in 1..Len(calls) : calls[k].entering /\ calls[k].path = path}
ExitCalls(path) == {k \in 1..Len(calls) : ~calls[k].entering /\ calls[k].path = path}
Pruned(k) == calls[k].entering /\ calls[k].ret = "False"

(* C12: in the handler calls of a visit that returns, every container that *)
(* was entered and not pruned has exactly one entering and one exit call,  *)
(* the exit after the entering, and the calls of its descendants are       *)
(* exactly the calls between the two; a Terminal has one entering call and *)
(* no exit call.                                                           *)
C12_VisitBracketing ==
    (last.op = "visit" /\ last.status = "ok") =>
        \A k \in 1..Len(calls) :
            LET p == calls[k].path
            IN  /\ Cardinality(EnterCalls(p)) = 1
                /\ IF IsContainer(calls[k].node) /\ ~Pruned(CHOOSE e \in EnterCalls(p) : TRUE)
                   THEN /\ Cardinality(ExitCalls(p)) = 1
                        /\ LET e == CHOOSE e \in EnterCalls(p) : TRUE
                               x == CHOOSE x \in ExitCalls(p) : TRUE
                           IN  /\ e < x
                               /\ calls[e].node = calls[x].node
                               /\ \A m \in 1..Len(calls) :
                                    IsStrictPrefix(p, calls[m].path) <=> (e < m /\ m < x)
                   ELSE ExitCalls(p) = {}

C12_Witness ==
    /\ last.op = "visit"
    /\ last.status = "ok"
    /\ \E k \in 1..Len(calls) :
        /\ ~calls[k].entering
        /\ Len(calls[k].path) >= 1
        /\ k < Len(calls)
        /\ \E m \in 1..Len(calls) : IsStrictPrefix(calls[k].path, calls[m].path)
    /\ \E k \in 1..Len(calls) : ~IsContainer(calls[k].node)

BelowPruned(path) ==
    \E k \in 1..Len(calls) : Pruned(k) /\ IsStrictPrefix(calls[k].path, path)
EnteringCursors ==
    LET IsEntering(c) == c.entering
        es == SelectSeq(calls, IsEntering)
    IN  [k \in 1..Len(es) |-> Cur(es[k].node, es[k].path)]

(* C13: when the handler returns False from the entering call of a node,   *)
(* no call is made for a descendant of the node and none for its exit; if  *)
(* the node is the one visit started at, that call is the only one. In a   *)
(* visit that returns, the entering calls are the pre-order enumeration    *)
(* without the descendants of pruned nodes (so the next sibling is         *)
(* visited) and every ancestor of a pruned node still gets its exit call.  *)
C13_VisitPruning ==
    last.op = "visit" =>
        /\ \A k \in 1..Len(calls) :
            Pruned(k) =>
                /\ \A m \in 1..Len(calls) : ~IsStrictPrefix(calls[k].path, calls[m].path)
                /\ ExitCalls(calls[k].path) = {}
                /\ EnterCalls(calls[k].path) = {k}
                /\ k = 1 => Len(calls) = 1
                /\ last.status = "ok" =>
                    \A a \in 1..Len(calls) :
                        (calls[a].entering /\ IsStrictPrefix(calls[a].path, calls[k].path)) =>
                            \E x \in ExitCalls(calls[a].path) : x > k
        /\ last.status = "ok" =>
            LET NotBelowPruned(c) == ~BelowPruned(c.path)
            IN  EnteringCursors =
                    SelectSeq(PreOrder(calls[1].node, calls[1].path), NotBelowPruned)

C13_Witness ==
    /\ last.op = "visit"
    /\ last.status = "ok"
    /\ \E k \in 1..Len(calls) :
        /\ Pruned(k)
        /\ Len(calls[k].node.kids) > 0
        /\ Len(calls[k].path) >= 1
        /\ \E m \in (k + 1)..Len(calls) :
            calls[m].entering /\ Len(calls[m].path) = Len(calls[k].path)

CallShape(cs) ==
    [k \in 1..Len(cs) |-> [node |-> cs[k].node, path |-> cs[k].path, entering |-> cs[k].entering]]

NeverFalseOnEntering == {"collect", "zero", "empty", "yes", "false_on_exit"}

(* C14: a handler that returns None, 0, "" or True from its entering calls *)
(* (and whatever it returns from an exit call, False included) gets the    *)
(* same calls as a handler that returns True everywhere: nothing is        *)
(* suppressed, every node of the subtree is entered.                       *)
C14_OnlyFalsePrunes ==
    (last.op = "visit" /\ last.msg \in NeverFalseOnEntering) =>
        /\ last.status = "ok"
        /\ CallShape(calls) = CallShape(visit(CallCursor(1), "yes").calls)
        /\ EnteringCursors = PreOrder(calls[1].node, calls[1].path)
        /\ \A k \in 1..Len(calls) : IsContainer(calls[k].node) => ExitCalls(calls[k].path) # {}

C14_Witness ==
    /\ last.op = "visit"
    /\ last.msg = "zero"
    /\ calls[1].ret = "0"
    /\ Len(calls) >= 4
    /\ \E k \in 1..Len(calls) : ~calls[k].entering /\ Len(calls[k].path) >= 1

RECURSIVE NodeCount(_)
RECURSIVE NodeCountOfChildren(_, _)
NodeCountOfChildren(n, i) ==
    IF i > Len(n.kids) THEN 0 ELSE NodeCount(n.kids[i]) + NodeCountOfChildren(n, i + 1)
NodeCount(n) == 1 + NodeCountOfChildren(n, 1)

(* C15: in a visit that returns and in which no entering call returned     *)
(* False, the entering calls are made on exactly the nodes of the subtree, *)
(* one per node, in pre-order: the order in which search evaluates a       *)
(* predicate that is never true.                                           *)
C15_VisitCoverage ==
    (last.op = "visit" /\ last.status = "ok" /\ \A k \in 1..Len(calls) : ~Pruned(k)) =>
        LET searched == search(CallCursor(1), Pred("never", <<>>)).calls
        IN  /\ Len(EnteringCursors) = NodeCount(calls[1].node)
            /\ EnteringCursors = PreOrder(calls[1].node, calls[1].path)
            /\ EnteringCursors = [k \in 1..Len(searched) |-> Cur(searched[k].node, searched[k].path)]

C15_Witness ==
    /\ last.op = "visit"
    /\ last.status = "ok"
    /\ \A k \in 1..Len(calls) : ~Pruned(k)
    /\ Len(EnteringCursors) >= 5
    /\ \E k \in 1..Len(calls) : Len(calls[k].node.keys) >= 2

IsPrefixSeq(s, t) == Len(s) <= Len(t) /\ SubSeq(t, 1, Len(s)) = s

(* C16: when a handler call raises, visit ends with the exception and that *)
(* call is the last one: no sibling is visited and no enclosing container  *)
(* gets its exit call; up to it the calls are those of an undisturbed      *)
(* visit.                                                                  *)
C16_VisitAbortsOnException ==
    last.op = "visit" =>
        /\ \A k \in 1..Len(calls) :
            calls[k].ret = "raise" => (k = Len(calls) /\ last.status = "raise")
        /\ last.status = "raise" =>
            /\ calls[Len(calls)].ret = "raise"
            /\ IsPrefixSeq(CallShape(calls), CallShape(visit(CallCursor(1), "collect").calls))

C16_Witness ==
    /\ last.op = "visit"
    /\ last.status = "raise"
    /\ calls[Len(calls)].entering
    /\ Len(calls[Len(calls)].path) >= 2
    /\ Len(calls) + 3 <= Len(visit(CallCursor(1), "collect").calls)

(* C17: when the predicate raises, search ends with the exception, returns *)
(* no cursor, also when a later node would match, and that call is the     *)
(* last one; up to it the calls follow the pre-order enumeration.          *)
C17_SearchAbortsOnException ==
    last.op = "search" =>
        /\ \A k \in 1..Len(calls) :
            calls[k].ret = "raise" => (k = Len(calls) /\ last.status = "raise")
        /\ last.status = "raise" =>
            /\ calls[Len(calls)].ret = "raise"
            /\ last.res = 0
            /\ IsPrefixSeq(CallCursors, PreOrder(calls[1].node, calls[1].path))

C17_Witness ==
    /\ last.op = "search"
    /\ last.status = "raise"
    /\ Len(calls) >= 3
    /\ Matches(PreOrder(calls[1].node, calls[1].path)) # {}

(* C18: no operation (navigation, value, get_path, the on_* predicates,    *)
(* search, visit) changes the caller's tree or the node or path of a       *)
(* cursor that exists already, the parent of a new cursor included.        *)
C18_NoMutation ==
    [][/\ tree' = tree
       /\ \A i \in 1..Top :
            i <= Len(cursors') =>
                /\ cursors'[i] = cursors[i]
                /\ lists'[cursors[i].path] = lists[cursors[i].path]]_vars

C18_Witness ==
    /\ Top >= 3
    /\ last.op = "search"
    /\ last.res = Top
    /\ held.of = Top - 1
    /\ lists[held.ref] = held.orig
    /\ held.orig # <<>>

(* C20: the addressing operations agree with the on_* predicates: cursor[i] *)
(* succeeds for every in-range i where on_list() is true, attribute access  *)
(* with a present key succeeds where on_dict() is true, value() fails where *)
(* on_data() is false; so every child that search or visit hands out is    *)
(* reached from its parent by one navigation step. Stated for keys that    *)
(* are no members of the cursor (C3 is about those).                       *)
C20_AddressingAgreesWithClassification ==
    /\ \A c \in Views :
        /\ on_list(c) =>
            \A i \in 0..(Len(c.node.kids) - 1) : __getitem__(c, i).status = "ok"
        /\ on_dict(c) =>
            \A i \in 1..Len(c.node.keys) :
                c.node.keys[i] \notin Members => GetAttr(c, c.node.keys[i]).status = "ok"
        /\ ~on_data(c) => value(c).status # "ok"
    /\ \A k \in 1..Len(calls) : \A m \in 1..Len(calls) :
        (Len(calls[m].path) = Len(calls[k].path) + 1
         /\ IsStrictPrefix(calls[k].path, calls[m].path)
         /\ calls[m].path[Len(calls[m].path)].name \notin Members) =>
            LET seg == calls[m].path[Len(calls[m].path)]
                o == IF seg.kind = "key"
                     THEN GetAttr(CallCursor(k), seg.name)
                     ELSE __getitem__(CallCursor(k), seg.idx)
            IN  o.status = "ok" /\ o.node = calls[m].node /\ o.path = calls[m].path

CallsAt(path, entering) ==
    {k \in 1..Len(calls) : calls[k].path = path /\ calls[k].entering = entering}

(* C21: search and visit return after finitely many callback calls: search *)
(* calls the predicate at most once per node of the subtree, visit calls   *)
(* the handler at most twice per node (one entering, one exit call), and   *)
(* when no call raises the operation returns.                              *)
C21_BoundedCalls ==
    /\ last.op = "search" =>
        /\ Len(calls) >= 1
        /\ Len(calls) <= NodeCount(calls[1].node)
        /\ \A k \in 1..Len(calls) :
            /\ Cardinality(CallsAt(calls[k].path, TRUE)) = 1
            /\ CallsAt(calls[k].path, FALSE) = {}
        /\ (\A k \in 1..Len(calls) : calls[k].ret # "raise") =>
            last.status \in {"found", "none"}
    /\ last.op = "visit" =>
        /\ Len(calls) >= 1
        /\ Len(calls) <= 2 * NodeCount(calls[1].node)
        /\ \A k \in 1..Len(calls) :
            /\ Cardinality(CallsAt(calls[k].path, TRUE)) = 1
            /\ Cardinality(CallsAt(calls[k].path, FALSE)) <= 1
        /\ (\A k \in 1..Len(calls) : calls[k].ret # "raise") => last.status = "ok"

C21_Witness ==
    /\ last.op = "visit"
    /\ last.status = "ok"
    /\ NodeCount(calls[1].node) >= 3
    /\ Len(calls) = 2 * NodeCount(calls[1].node)

ExampleUser == Lookup(ExampleTree, "user")
ExampleTags == Lookup(ExampleUser, "tags")
AtUser == Cur(ExampleUser, <<Key("user")>>)
AtName == Cur(Alice, <<Key("user"), Key("name")>>)
AtTags == Cur(ExampleTags, <<Key("user"), Key("tags")>>)
AtY == Cur(PyStr(<<"y">>), <<Key("user"), Key("tags"), Index(1)>>)

(* C22: on the root {"user": {"name": "Alice", "tags": ["x", "y"]}} every   *)
(* step of the example does what the example says: .user, then .name gives *)
(* the cursor (Alice, [user, name]) whose value() is Alice; .user, .tags,  *)
(* [1] gives (y, [user, tags, 1]) whose value() is y; searching the root   *)
(* for a terminal equal to y returns the cursor with path [user, tags, 1]; *)
(* .missing on the root fails with "Key not found" and [5] on user.tags    *)
(* with IndexError.                                                        *)
C22_EndToEnd ==
    [][tree = ExampleTree =>
        LET self == Self(Top)
            made == Cur(cursors'[Len(cursors')].node,
                        lists'[cursors'[Len(cursors')].path])
            Returns(c) == last'.status = "ok" /\ Len(cursors') = Top + 1 /\ made = c
        IN  /\ (Top = 1 /\ last'.op = "childByKey" /\ last'.seg = Key("user"))
                    => Returns(AtUser)
            /\ (self = AtUser /\ last'.op = "childByKey" /\ last'.seg = Key("name"))
                    => Returns(AtName)
            /\ (self = AtName /\ last'.op = "value")
                    => (last'.status = "ok" /\ last'.val = Alice)
            /\ (self = AtUser /\ last'.op = "childByKey" /\ last'.seg = Key("tags"))
                    => Returns(AtTags)
            /\ (self = AtTags /\ last'.op = "childByIndex" /\ last'.seg = Index(1))
                    => Returns(AtY)
            /\ (self = AtY /\ last'.op = "value")
                    => (last'.status = "ok" /\ last'.val = PyStr(<<"y">>))
            /\ (Top = 1 /\ last'.op = "search" /\ last'.msg = "terminal_eq"
                /\ last'.arg = <<"y">>)
                    => (last'.status = "found" /\ Len(cursors') = 2 /\ made = AtY)
            /\ (Top = 1 /\ last'.op = "childByKey" /\ last'.seg = Key("missing"))
                    => /\ last'.status = "AttributeError"
                       /\ last'.msg = "Key not found in current node"
                       /\ cursors' = cursors
            /\ (self = AtTags /\ last'.op = "childByIndex" /\ last'.seg = Index(5))
                    => (last'.status = "IndexError" /\ cursors' = cursors)]_vars

C22_Witness ==
    /\ tree = ExampleTree
    /\ Top = 4
    /\ steps = <<0, 1, 2, 3>>
    /\ Self(2) = AtUser
    /\ Self(3) = AtTags
    /\ Self(4) = AtY
    /\ last.op = "value"
    /\ last.val = PyStr(<<"y">>)

(* C23: an empty Mapping or empty list-like Sequence whose entering call   *)
(* returned neither False nor raised gets its exit call as the very next   *)
(* handler call, on the same node and path.                                *)
C23_EmptyContainersBracketed ==
    last.op = "visit" =>
        \A k \in 1..Len(calls) :
            (/\ calls[k].entering
             /\ IsContainer(calls[k].node)
             /\ Len(calls[k].node.kids) = 0
             /\ calls[k].ret \notin {"False", "raise"}) =>
                /\ k < Len(calls)
                /\ ~calls[k + 1].entering
                /\ calls[k + 1].node = calls[k].node
                /\ calls[k + 1].path = calls[k].path

C23_Witness ==
    /\ last.op = "visit"
    /\ last.status = "ok"
    /\ \E k \in 1..(Len(calls) - 2) :
        /\ calls[k].entering
        /\ calls[k].node = PyDict(<<>>, <<>>)
        /\ Len(calls[k].path) >= 1
        /\ ~calls[k + 1].entering
    /\ \E k \in 1..(Len(calls) - 2) :
        /\ calls[k].entering
        /\ calls[k].node = PyList(<<>>)
        /\ ~calls[k + 1].entering

(* the node the segments lead to from n, by the entries of the containers; *)
(* a one-element sequence holding it, or the empty sequence when a segment *)
(* names no entry                                                          *)
RECURSIVE Follow(_, _, _)
Follow(n, segs, i) ==
    IF i > Len(segs) THEN <<n>>
    ELSE IF segs[i].kind = "key"
         THEN IF IsInstanceMapping(n) /\ Contains(n, segs[i].name)
              THEN Follow(Lookup(n, segs[i].name), segs, i + 1)
              ELSE <<>>
         ELSE IF n.type \in {"list", "tuple"} /\ 0 <= segs[i].idx /\ segs[i].idx < Len(n.kids)
              THEN Follow(n.kids[segs[i].idx + 1], segs, i + 1)
              ELSE <<>>

Below(S, c) ==
    /\ IsPrefixSeq(S.path, c.path)
    /\ Follow(S.node, SubSeq(c.path, Len(S.path) + 1, Len(c.path)), 1) = <<c.node>>

(* C24: a search or visit started on the cursor S passes S itself (its     *)
(* node and path) to the first callback, and every cursor it passes to a   *)
(* callback or returns has a path that is S's path followed by the         *)
(* segments that lead from S's node to the cursor's node; the entering and *)
(* the exit call of a container carry the same node and path.              *)
C24_AbsolutePaths ==
    [][last'.op \in {"search", "visit"} =>
        LET S == Self(Top)
        IN  /\ Len(calls') >= 1
            /\ Cur(calls'[1].node, calls'[1].path) = S
            /\ calls'[1].entering
            /\ \A k \in 1..Len(calls') :
                /\ Below(S, Cur(calls'[k].node, calls'[k].path))
                /\ ~calls'[k].entering =>
                    \E e \in 1..(k - 1) :
                        /\ calls'[e].entering
                        /\ calls'[e].path = calls'[k].path
                        /\ calls'[e].node = calls'[k].node
            /\ (last'.op = "search" /\ last'.status = "found") =>
                LET found == Cur(cursors'[last'.res].node, lists'[cursors'[last'.res].path])
                IN  /\ Below(S, found)
                    /\ found = Cur(calls'[Len(calls')].node, calls'[Len(calls')].path)]_vars

C24_Witness ==
    /\ last.op = "search"
    /\ last.status = "found"
    /\ Top >= 3
    /\ last.res = Top
    /\ Len(Self(Top - 1).path) >= 1
    /\ Self(Top - 1) = CallCursor(1)
    /\ Len(Self(Top).path) >= Len(Self(Top - 1).path) + 2

FalsyKinds ==
    {PyInt("0"), PyBool("False"), PyStr(<<>>), PyNone, PyDict(<<>>, <<>>), PyList(<<>>)}

(* C25: when the first node in pre-order that satisfies the predicate      *)
(* holds 0, False, "", None, an empty dict or an empty list, a search that *)
(* returns gives the cursor of that node: it neither goes on to a later    *)
(* node nor returns None.                                                  *)
C25_FalsyMatchReturned ==
    (last.op = "search" /\ last.status \in {"found", "none"}) =>
        LET pre == PreOrder(calls[1].node, calls[1].path)
            M == Matches(pre)
        IN  (M # {} /\ pre[First(M)].node \in FalsyKinds) =>
                /\ last.status = "found"
                /\ Self(last.res) = pre[First(M)]
                /\ Len(calls) = First(M)
                /\ CallCursor(Len(calls)) = pre[First(M)]

C25_Witness ==
    /\ last.op = "search"
    /\ last.status = "found"
    /\ last.msg = "is_none"
    /\ Self(last.res).node = PyNone
    /\ Len(Self(last.res).path) >= 1
    /\ Len(calls) >= 2
    /\ Len(calls) < Len(PreOrder(calls[1].node, calls[1].path))

Errors == {"AttributeError", "IndexError", "TypeError"}

(* C26: a step in which cursor.<name>, cursor[i] or value() raises leaves  *)
(* the tree, every cursor (its node and the content of its path list) and  *)
(* the set of cursors as they were, so that every operation on the cursor  *)
(* gives afterwards what it gave before.                                   *)
C26_FailureHasNoEffect ==
    [][(last'.op \in {"childByKey", "childByIndex", "value"} /\ last'.status \in Errors) =>
        /\ tree' = tree
        /\ cursors' = cursors
        /\ lists' = lists
        /\ Self(Top)' = Self(Top)
        /\ \A name \in KeyNames : GetAttr(Self(Top), name)' = GetAttr(Self(Top), name)
        /\ \A i \in Indices : __getitem__(Self(Top), i)' = __getitem__(Self(Top), i)
        /\ value(Self(Top))' = value(Self(Top))
        /\ get_path(cursors[Top])' = get_path(cursors[Top])]_vars

C26_Witness ==
    /\ last.op = "childByIndex"
    /\ last.status = "IndexError"
    /\ last.res = 0
    /\ Top >= 2
    /\ Len(Self(Top).path) >= 1
    /\ \E i \in Indices : __getitem__(Self(Top), i).status = "ok"

(* d.get(k), with Absent for a name that is no key of d *)
Absent == [type |-> "absent", keys |-> <<>>, kids |-> <<>>, val |-> <<>>]
DictGet(d, k) == IF Contains(d, k) THEN Lookup(d, k) ELSE Absent
ParamsOf(that) == IF that.type = "RestRequest" THEN that.params ELSE that
NamesIn(d) == {d.keys[i] : i \in 1..Len(d.keys)}

(* C30: request.merge(other) returns a request whose params are those of   *)
(* request overwritten by those of other, for every parameter name, and    *)
(* whose base_url, endpoint, headers, body and auth are those of request;  *)
(* it changes neither request nor other.                                   *)
C30_MergeOverwritesParamsOnly ==
    [][request_op' = "merge" =>
        /\ built'.params.type = "dict"
        /\ \A k \in ParamNames \cup NamesIn(request.params) \cup NamesIn(ParamsOf(other)) :
            DictGet(built'.params, k) =
                IF Contains(ParamsOf(other), k)
                THEN Lookup(ParamsOf(other), k)
                ELSE DictGet(request.params, k)
        /\ built'.base_url = request.base_url
        /\ built'.endpoint = request.endpoint
        /\ built'.headers = request.headers
        /\ built'.body = request.body
        /\ built'.auth = request.auth
        /\ request' = request
        /\ other' = other]_vars

RECURSIVE Concat(_, _)
Concat(rs, i) == IF i > Len(rs) THEN <<>> ELSE rs[i].result \o Concat(rs, i + 1)

CollectRuns ==
    /\ Len(replies) <= Len(sent)
    /\ Len(sent) <= Len(replies) + 1
    /\ Len(sent) >= 1 => sent[1] = rest_request
    /\ \A n \in 2..Len(sent) :
        /\ replies[n - 1].page # replies[n - 1].last_page
        /\ DictGet(sent[n].params, "page") = replies[n - 1].next_page
        /\ \A k \in NamesIn(sent[n - 1].params) \ {"page"} :
            DictGet(sent[n].params, k) = DictGet(sent[n - 1].params, k)
        /\ [sent[n] EXCEPT !.params = PyNone] = [sent[n - 1] EXCEPT !.params = PyNone]
    /\ \A n \in 1..(Len(replies) - 1) : replies[n].page # replies[n].last_page
    /\ (Len(sent) = Len(replies) /\ Len(replies) >= 1
        /\ replies[Len(replies)].page = replies[Len(replies)].last_page) =>
            pc \in {"got", "convert", "done"}
    /\ pc \in {"convert", "done"} =>
        /\ Len(sent) = Len(replies)
        /\ replies[Len(replies)].page = replies[Len(replies)].last_page
    /\ pc = "convert" => collected = Concat(replies, 1)
    /\ pc = "done" =>
        /\ Len(collected) = Len(Concat(replies, 1))
        /\ \A i \in 1..Len(collected) :
            collected[i] = IF convert_to = "None"
                           THEN Concat(replies, 1)[i]
                           ELSE from_data(Concat(replies, 1)[i])

(* C27: testmo_collect sends the request it was given first and, after     *)
(* every reply whose page is not last_page, that request with page set to  *)
(* the reply's next_page; it sends nothing after the first reply with      *)
(* page = last_page; what it returns is the replies' result lists one      *)
(* after the other in request order, every entry converted by convert_to   *)
(* when there is one. Once a reply with page = last_page has arrived it    *)
(* returns.                                                                *)
C27_Pagination ==
    /\ []CollectRuns
    /\ (pc = "got" /\ reply.page = reply.last_page) ~> (pc = "done")

C27_Witness ==
    /\ pc = "done"
    /\ convert_to = "from_data"
    /\ Len(sent) = 3
    /\ DictGet(sent[2].params, "page") = PyInt("2")
    /\ DictGet(sent[3].params, "page") = PyNone
    /\ Contains(rest_request.params, "per_page")
    /\ Len(collected) = 4
    /\ replies[2].result = <<>>

Overrides(i) == event \in DOMAIN handlers[i].defines
Does(i) == handlers[i].defines[event].does
Overriders == SelectSeq([i \in 1..Len(handlers) |-> i], Overrides)
FirstAbort == {k \in 1..Len(Overriders) :
                  /\ Does(Overriders[k]) = "Abort"
                  /\ \A j \in 1..(k - 1) : Does(Overriders[j]) # "Abort"}
UpToAbort ==
    IF FirstAbort = {} THEN Overriders
    ELSE SubSeq(Overriders, 1, CHOOSE k \in FirstAbort : TRUE)
ReturnsValue(i) == Does(i) \notin {"None", "Abort", "exit"}

Raises(i) == Does(i) \in {"Abort", "exit"}
FirstRaise == {k \in 1..Len(Overriders) :
                  /\ Raises(Overriders[k])
                  /\ \A j \in 1..(k - 1) : ~Raises(Overriders[j])}
UpToRaise ==
    IF FirstRaise = {} THEN Overriders
    ELSE SubSeq(Overriders, 1, CHOOSE k \in FirstRaise : TRUE)
Propagates ==
    /\ UpToRaise # <<>>
    /\ Does(UpToRaise[Len(UpToRaise)]) = "exit"

(* C28 as stated: calling an event method on a chain invokes, in the order *)
(* of the chain, exactly the handlers whose class overrides the method, up *)
(* to and including the first that raises Abort; the call returns the last *)
(* value other than None that an invoked handler returned, None when there *)
(* is none. Fails when an invoked handler raises anything but Abort.       *)
C28_AsStated ==
    event \in BaseMethods =>
        /\ outcome.status = "return"
        /\ invoked = UpToAbort
        /\ LET values == SelectSeq(UpToAbort, ReturnsValue)
           IN  outcome.result = IF values = <<>> THEN "None" ELSE Does(values[Len(values)])

(* C28, amended: calling an event method on a chain invokes, in the order  *)
(* of the chain, exactly the handlers whose class overrides the method     *)
(* (its own or an inherited override), up to and including the first that  *)
(* raises. When that one raises Abort, or none raises, the call returns    *)
(* (Abort does not reach the caller) the last value other than None that   *)
(* an invoked handler returned, None when there is none. When it raises    *)
(* anything else, the exception reaches the caller and nothing is          *)
(* returned.                                                               *)
C28_ChainDispatch ==
    event \in BaseMethods =>
        /\ invoked = UpToRaise
        /\ outcome.status = IF Propagates THEN "raise" ELSE "return"
        /\ ~Propagates =>
            LET values == SelectSeq(UpToRaise, ReturnsValue)
            IN  outcome.result =
                    IF values = <<>> THEN "None" ELSE Does(values[Len(values)])

C28_Witness ==
    /\ event = "csv_read_complete"
    /\ Len(handlers) = 4
    /\ invoked = <<1, 3>>
    /\ outcome.status = "return"
    /\ outcome.result = "0"
    /\ handlers[2].cls = "StdEventHandler"
    /\ handlers[3].cls = "Aborting"
    /\ handlers[4].cls = "InterActiveMode"

(* the runs in the order of created_at, found without sorting: the run at  *)
(* place k is the one with k - 1 runs before it (earlier, or as early and  *)
(* earlier in the list)                                                    *)
Before(a, b) ==
    \/ test_runs[a].created_at < test_runs[b].created_at
    \/ (test_runs[a].created_at = test_runs[b].created_at /\ a < b)
Chronological ==
    [k \in 1..Len(test_runs) |->
        test_runs[CHOOSE b \in 1..Len(test_runs) :
                      Cardinality({a \in 1..Len(test_runs) : Before(a, b)}) = k - 1]]
Min(a, b) == IF a <= b THEN a ELSE b
ExpectedRuns ==
    IF requested_runs > 0
    THEN SubSeq(Chronological,
                Len(test_runs) - Min(requested_runs, Len(test_runs)) + 1, Len(test_runs))
    ELSE IF requested_runs = 0
         THEN SelectSeq(Chronological, testrun_is_active)
         ELSE Chronological
FirstRunColumn == 1 + Len(std_fields) + Len(additional_columns)

(* C29: with the runs in the order of created_at, table_to_sheet writes    *)
(* the last min(N, total) runs for number_of_runs = N > 0, the active runs *)
(* for 0 and all runs for a negative number, each once, in that order,     *)
(* into the columns FirstRunColumn, FirstRunColumn + 1, ... without a gap. *)
C29_RunSelection ==
    /\ \A k \in 1..Len(sheet) : sheet[k].column = FirstRunColumn + k - 1
    /\ phase = "done" =>
        /\ Len(sheet) = Len(ExpectedRuns)
        /\ \A k \in 1..Len(sheet) : sheet[k].run = ExpectedRuns[k].id

C29_Witness ==
    /\ phase = "done"
    /\ requested_runs = 2
    /\ Len(test_runs) = 3
    /\ test_runs[1].created_at > test_runs[2].created_at
    /\ Len(sheet) = 2
    /\ sheet[1].run = 1
    /\ ~testrun_is_active(test_runs[1])

====
